---- MODULE Spec2Model ----
(***************************************************************************)
(* Booking engine, dedup gate and notification scheduler of the WhatsApp   *)
(* appointment bot.                                                        *)
(*                                                                         *)
(* The datastore (Supabase/PostgREST) is shared by every worker process    *)
(* and by the salon's own tooling, so every datastore call of a handler is *)
(* one atomic step and steps of different calls interleave freely.  Dates  *)
(* and times are integers (one unit = one slot of the calendar).           *)
(***************************************************************************)
EXTENDS Integers, Sequences, FiniteSets, TLC

\* ---------------------------------------------------------------- bounds
MaxAppts == 3
MaxTime == 2
MaxOps == 2

Procs == {1, 2}
Tenants == {1, 2}
Clients == {1, 2}
\* who calls: the tenant and client the conversation was resolved to
Callers == {<<1, 1>>, <<1, 2>>, <<2, 1>>}
\* who books in the model
BookCallers == {<<1, 1>>}
Staffs == {1, 2}
Durations == {1, 2}

ApptIds == 1..MaxAppts
Times == 0..MaxTime

\* the in-process dedup cap, MAX_DEDUP_SIZE = 10_000 in the code, scaled down
MAX_DEDUP_SIZE == 2
MaxDeliveries == 3

Workers == {1, 2}
MsgIds == {1, 2, 3}
Deliveries == 1..MaxDeliveries

\* the scheduler's clock counts units of five minutes
REMINDER_LEAD == 12
REMINDER_WIDTH == 1
REMINDER_EVERY == 1

\* availability works on times of day; DEFAULT_SLOT_MINUTES is the step
DEFAULT_SLOT_MINUTES == 1
\* Europe/Rome is ahead of UTC by this much, in steps
ROME_UTC_OFFSET == 2
DAY == 288

Runs == {1, 2}
Jobs == {"morning", "reminder"}
MorningMarker == "morning_confirm"
ReminderMarker == "reminder_1h"

VARIABLES
    \* the datastore's appointments and audit_logs, the tool calls in flight
    appts, audit, pc, req, result, rpcAvailable, now, opsLeft,
    \* the workers' dedup caches, whatsapp_messages, the deliveries in flight
    cache, msgLog, outbound, handled, hpc, hmsg, hworker, waitingHuman,
    \* the job runs in flight and the notifications delivered
    spc, sjob, ssnap, srow, sat, sends, stry, due,
    \* one availability request: its arguments and the tables it reads, its
    \* position, the staff still to visit, the closed staff, slots and result
    avIn, avPc, avTodo, avClosed, avSlots, avOut,
    \* one POST /webhook request: what arrived, the handler's position, the
    \* HTTP status answered, the datastore and channel calls made so far
    inq, ipc, istatus, ilog,
    \* the ids of each dedup cache oldest first, and the id last added
    inserted, lastAdd,
    \* one send_text_message call: the channel's answers to its requests, its
    \* position, the loop variable, the requests and waits made, the result
    txIn, txPc, txAttempt, txLog, txOut

bookVars == <<appts, audit, pc, req, result, rpcAvailable, now, opsLeft>>
hookVars == <<cache, msgLog, outbound, handled, hpc, hmsg, hworker, waitingHuman>>
schedVars == <<spc, sjob, ssnap, srow, sat, sends, stry, due>>
availVars == <<avIn, avPc, avTodo, avClosed, avSlots, avOut>>
ingressVars == <<inq, ipc, istatus, ilog, inserted, lastAdd>>
sendVars == <<txIn, txPc, txAttempt, txLog, txOut>>
vars == <<bookVars, hookVars, schedVars, availVars, ingressVars, sendVars>>

\* ------------------------------------------------------------ data model
ActiveStatuses == {"pending", "confirmed", "in_service"}
TerminalStatuses == {"canceled", "completed"}
Statuses == ActiveStatuses \cup TerminalStatuses

AbsentAppt ==
    [status |-> "absent", tenant |-> 0, client |-> 0, staff |-> 0,
     start |-> 0, end |-> 0, dur |-> 0, notes |-> {}]

NoReq ==
    [op |-> "none", action |-> "none", tenant |-> 0, client |-> 0, staff |-> 0,
     appt |-> 0, start |-> 0, end |-> 0, snapStaff |-> 0, snapNotes |-> {}]

NoResult == [op |-> "none", kind |-> "none", err |-> "none", appt |-> 0]

Success(op, a) == [op |-> op, kind |-> "success", err |-> "none", appt |-> a]
Error(op, e) == [op |-> op, kind |-> "error", err |-> e, appt |-> 0]
Reply(op, a) == [op |-> op, kind |-> "reply", err |-> "none", appt |-> a]

\* half-open overlap as the queries test it: start_at < end AND end_at > start
Overlap(s1, e1, s2, e2) == s1 < e2 /\ e1 > s2

\* rows the overlap query of book_appointment returns
BookOverlapRows(staff, s, e) ==
    {a \in ApptIds : /\ appts[a].staff = staff
                     /\ appts[a].status \in ActiveStatuses
                     /\ Overlap(appts[a].start, appts[a].end, s, e)}

\* rows the overlap query of modify_appointment returns (own row excluded)
ModifyOverlapRows(staff, self, s, e) ==
    {a \in ApptIds : /\ appts[a].staff = staff
                     /\ appts[a].status \in ActiveStatuses
                     /\ a # self
                     /\ Overlap(appts[a].start, appts[a].end, s, e)}

\* active rows of the staff member that the stored procedures test against
\* [s, e); self is the row being moved (0 when a new row is inserted)
AtomicOverlapRows(staff, self, s, e) ==
    {a \in ApptIds : /\ a # self
                     /\ appts[a].staff = staff
                     /\ appts[a].status \in ActiveStatuses
                     /\ appts[a].start < e
                     /\ appts[a].end > s}

\* the row an ownership query (id, client_id, tenant_id) returns, if any
Owned(a, tenant, client) ==
    /\ a \in ApptIds
    /\ appts[a].status # "absent"
    /\ appts[a].tenant = tenant
    /\ appts[a].client = client

FreeIds == {a \in ApptIds : appts[a].status = "absent"}
NewId == CHOOSE a \in FreeIds : \A b \in FreeIds : a <= b

BookPcs == {"book_rpc", "book_check", "book_insert"}
Booking == {p \in Procs : pc[p] \in BookPcs}

AuditEntry(action, target) == [action |-> action, target |-> target]

\* the audit insert is wrapped in its own try/except: it is appended or lost
AuditAfter(ok, action, target) ==
    IF ok THEN Append(audit, AuditEntry(action, target)) ELSE audit

\* the call returns r to its caller
Finish(p, r) ==
    /\ pc' = [pc EXCEPT ![p] = "done"]
    /\ result' = [result EXCEPT ![p] = r]
    /\ req' = [req EXCEPT ![p] = NoReq]
    /\ UNCHANGED <<hookVars, schedVars, availVars, ingressVars, sendVars>>

\* the call goes on to its next datastore call, with locals r
Goto(p, label, r) ==
    /\ pc' = [pc EXCEPT ![p] = label]
    /\ req' = [req EXCEPT ![p] = r]
    /\ UNCHANGED <<result, hookVars, schedVars, availVars, ingressVars, sendVars>>

\* a worker takes a request: the first datastore call of the handler is the
\* first step, its arguments are chosen there
Accept(p) ==
    /\ pc[p] = "idle"
    /\ opsLeft > 0
    /\ opsLeft' = opsLeft - 1

\* ------------------------------------------------------------------ Init
InitAppt(st) ==
    [status |-> st, tenant |-> 1, client |-> 1, staff |-> 1,
     start |-> 1, end |-> 3, dur |-> 2, notes |-> {}]

\* no tool call in flight
InitCalls ==
    /\ audit = <<>>
    /\ pc = [p \in Procs |-> "idle"]
    /\ req = [p \in Procs |-> NoReq]
    /\ result = [p \in Procs |-> NoResult]
    /\ rpcAvailable \in BOOLEAN
    /\ now = 0
    /\ opsLeft = MaxOps

\* _processed_messages = set() in every worker, nothing delivered yet
InitHook ==
    /\ cache = [w \in Workers |-> {}]
    /\ msgLog = [m \in MsgIds |-> 0]
    /\ outbound = [m \in MsgIds |-> 0]
    /\ handled = [m \in MsgIds |-> 0]
    /\ hpc = [d \in Deliveries |-> "waiting"]
    /\ hmsg = [d \in Deliveries |-> 0]
    /\ hworker = [d \in Deliveries |-> 0]

\* a row of a job's query result: the appointment and its notes as read
NoRow == [id |-> 0, notes |-> {}]

\* no job run in flight
InitRuns ==
    /\ spc = [r \in Runs |-> "idle"]
    /\ sjob = [r \in Runs |-> "none"]
    /\ ssnap = [r \in Runs |-> {}]
    /\ srow = [r \in Runs |-> NoRow]
    /\ sat = [r \in Runs |-> 0]
    /\ sends = [a \in ApptIds |-> [j \in Jobs |-> 0]]
    /\ stry = [r \in Runs |-> <<>>]
    /\ due = 0

\* a request as received: nothing read, nothing computed yet
NoAvOut == [kind |-> "none", available |-> FALSE, reason |-> "none"]

NoAvIn ==
    [date |-> "future", dur |-> 1, staff |-> 0, closure |-> "none",
     hours |-> [s \in Staffs |-> <<>>], shift |-> 0, clock |-> 0]

\* no availability request in flight
InitNoAvail ==
    /\ avIn = NoAvIn
    /\ avPc = "done"
    /\ avTodo = <<>>
    /\ avClosed = {}
    /\ avSlots = <<>>
    /\ avOut = NoAvOut

\* no POST /webhook request in hand, caches filled by nobody
NoInq ==
    [secret |-> FALSE, sig |-> "none", body |-> "none", text |-> FALSE,
     sender |-> FALSE, id |-> 0, tenant |-> "none", stale |-> FALSE]

InitNoIngress ==
    /\ inq = NoInq
    /\ ipc = "done"
    /\ istatus = 0
    /\ ilog = <<>>
    /\ inserted = [w \in Workers |-> <<>>]
    /\ lastAdd = [w \in Workers |-> 0]

\* no send_text_message call in flight
InitNoSend ==
    /\ txIn = <<>>
    /\ txPc = "done"
    /\ txAttempt = 0
    /\ txLog = <<>>
    /\ txOut = "none"

Init ==
    /\ \E st \in Statuses :
          appts = [a \in ApptIds |-> IF a = 1 THEN InitAppt(st) ELSE AbsentAppt]
    /\ InitCalls
    /\ InitHook
    /\ waitingHuman = FALSE
    /\ InitRuns
    /\ InitNoAvail
    /\ InitNoIngress
    /\ InitNoSend

\* ------------------------------------------------------- book_appointment
BookReq(who, s, st, d) ==
    [NoReq EXCEPT !.op = "book", !.tenant = who[1], !.client = who[2],
                  !.staff = s, !.start = st, !.end = st + d]

NewAppt(r) ==
    [status |-> "confirmed", tenant |-> r.tenant, client |-> r.client,
     staff |-> r.staff, start |-> r.start, end |-> r.end,
     dur |-> r.end - r.start, notes |-> {}]

\* lines 44-75: no client, service or staff not resolved
BookReject(p) ==
    \E why \in {"no_client", "not_found"} :
        /\ Accept(p)
        /\ Finish(p, Error("book", why))
        /\ UNCHANGED <<appts, audit, rpcAvailable, now>>

\* lines 78-101 around book_appointment_atomic: overlap check and insert in
\* one transaction
BookRpcOk(p) ==
    \E who \in BookCallers, s \in Staffs, st \in Times, d \in Durations :
        /\ Accept(p)
        /\ Cardinality(FreeIds) > Cardinality(Booking)
        /\ rpcAvailable
        /\ IF AtomicOverlapRows(s, 0, st, st + d) = {}
           THEN /\ appts' = [appts EXCEPT ![NewId] = NewAppt(BookReq(who, s, st, d))]
                /\ Finish(p, Success("book", NewId))
           ELSE /\ UNCHANGED appts
                /\ Finish(p, Error("book", "conflict"))
        /\ UNCHANGED <<audit, rpcAvailable, now>>

\* lines 102-103: any exception of the rpc call leads to the legacy path
BookRpcRaise(p) ==
    \E who \in BookCallers, s \in Staffs, st \in Times, d \in Durations :
        /\ Accept(p)
        /\ Cardinality(FreeIds) > Cardinality(Booking)
        /\ Goto(p, "book_check", BookReq(who, s, st, d))
        /\ UNCHANGED <<appts, audit, rpcAvailable, now>>

\* lines 106-117: the overlap query answered
BookCheck(p) ==
    /\ pc[p] = "book_check"
    /\ IF BookOverlapRows(req[p].staff, req[p].start, req[p].end) # {}
       THEN Finish(p, Error("book", "conflict"))
       ELSE Goto(p, "book_insert", req[p])
    /\ UNCHANGED <<appts, audit, rpcAvailable, now, opsLeft>>

\* lines 118-119: the overlap query raised; logged, and the insert follows
BookCheckRaise(p) ==
    /\ pc[p] = "book_check"
    /\ Goto(p, "book_insert", req[p])
    /\ UNCHANGED <<appts, audit, rpcAvailable, now, opsLeft>>

\* lines 121-141
BookInsert(p) ==
    /\ pc[p] = "book_insert"
    /\ appts' = [appts EXCEPT ![NewId] = NewAppt(req[p])]
    /\ Finish(p, Success("book", NewId))
    /\ UNCHANGED <<audit, rpcAvailable, now, opsLeft>>

\* lines 143-147
BookInsertRaise(p) ==
    /\ pc[p] = "book_insert"
    /\ Finish(p, Error("book", "external"))
    /\ UNCHANGED <<appts, audit, rpcAvailable, now, opsLeft>>

\* ----------------------------------------------------- modify_appointment
\* the three refusals of lines 221-243, in the order the code tests them
ModifyRefusal(a, tenant, client, newStart) ==
    IF ~Owned(a, tenant, client) THEN "not_found"
    ELSE IF appts[a].status \notin {"pending", "confirmed"} THEN "invalid_status"
    ELSE IF newStart < now THEN "validation"
    ELSE "none"

ModifyReq(a, who, st) ==
    [NoReq EXCEPT !.op = "modify", !.tenant = who[1], !.client = who[2],
                  !.appt = a, !.start = st, !.end = st + appts[a].dur,
                  !.snapStaff = appts[a].staff, !.snapNotes = appts[a].notes]

\* lines 205-243: ownership query, status test, new interval, past test
\* modify_appointment without the status test of lines 226-227
ModifyVerifyOn_NoStatusTest(p, a, who, st) ==
    /\ Accept(p)
    /\ IF ~Owned(a, who[1], who[2])
       THEN Finish(p, Error("modify", "not_found"))
       ELSE IF st < now
       THEN Finish(p, Error("modify", "validation"))
       ELSE Goto(p, "mod_rpc", ModifyReq(a, who, st))
    /\ UNCHANGED <<appts, audit, rpcAvailable, now>>

ModifyVerifyOn(p, a, who, st) ==
    /\ Accept(p)
    /\ LET why == ModifyRefusal(a, who[1], who[2], st)
       IN IF why # "none"
          THEN Finish(p, Error("modify", why))
          ELSE Goto(p, "mod_rpc", ModifyReq(a, who, st))
    /\ UNCHANGED <<appts, audit, rpcAvailable, now>>

ModifyVerify(p) ==
    /\ pc[p] = "idle"
    /\ \E a \in ApptIds, who \in Callers, st \in Times : ModifyVerifyOn(p, a, who, st)

\* lines 229-230
ModifyVerifyRaise(p) ==
    /\ Accept(p)
    /\ Finish(p, Error("modify", "external"))
    /\ UNCHANGED <<appts, audit, rpcAvailable, now>>

\* lines 246-280 around modify_appointment_atomic: ownership, status and
\* overlap (own row excluded) tested and the row moved in one transaction
ModifyRpcOk(p) ==
    /\ pc[p] = "mod_rpc"
    /\ rpcAvailable
    /\ LET a == req[p].appt
       IN IF /\ Owned(a, req[p].tenant, req[p].client)
             /\ appts[a].status \in {"pending", "confirmed"}
             /\ AtomicOverlapRows(appts[a].staff, a, req[p].start, req[p].end) = {}
          THEN /\ appts' = [appts EXCEPT ![a].start = req[p].start,
                                         ![a].end = req[p].end,
                                         ![a].status = "confirmed"]
               /\ \E ok \in BOOLEAN : audit' = AuditAfter(ok, "appointment_rescheduled", a)
               /\ Finish(p, Success("modify", a))
          ELSE /\ UNCHANGED <<appts, audit>>
               /\ Finish(p, Error("modify",
                                  IF ~Owned(a, req[p].tenant, req[p].client)
                                  THEN "not_found"
                                  ELSE IF appts[a].status \notin {"pending", "confirmed"}
                                  THEN "invalid_status"
                                  ELSE "conflict"))
    /\ UNCHANGED <<rpcAvailable, now, opsLeft>>

\* lines 281-282: any exception of the rpc call leads to the legacy path
ModifyRpcRaise(p) ==
    /\ pc[p] = "mod_rpc"
    /\ Goto(p, "mod_check", req[p])
    /\ UNCHANGED <<appts, audit, rpcAvailable, now, opsLeft>>

\* lines 285-298
ModifyCheck(p) ==
    /\ pc[p] = "mod_check"
    /\ IF ModifyOverlapRows(req[p].snapStaff, req[p].appt, req[p].start, req[p].end) # {}
       THEN Finish(p, Error("modify", "conflict"))
       ELSE Goto(p, "mod_update", req[p])
    /\ UNCHANGED <<appts, audit, rpcAvailable, now, opsLeft>>

\* lines 299-300: the overlap query raised; logged, and the update follows
ModifyCheckRaise(p) ==
    /\ pc[p] = "mod_check"
    /\ Goto(p, "mod_update", req[p])
    /\ UNCHANGED <<appts, audit, rpcAvailable, now, opsLeft>>

\* the update of lines 303-309 writing start_at without end_at
ModifyUpdate_StartOnly(p) ==
    /\ pc[p] = "mod_update"
    /\ LET a == req[p].appt
       IN /\ appts' = [appts EXCEPT ![a].start = req[p].start,
                                    ![a].status = "confirmed",
                                    ![a].notes = req[p].snapNotes]
          /\ \E ok \in BOOLEAN : audit' = AuditAfter(ok, "appointment_rescheduled", a)
          /\ Finish(p, Success("modify", a))
    /\ UNCHANGED <<rpcAvailable, now, opsLeft>>

\* lines 302-330: update by id alone, then the audit entry
ModifyUpdate(p) ==
    /\ pc[p] = "mod_update"
    /\ LET a == req[p].appt
       IN /\ appts' = [appts EXCEPT ![a].start = req[p].start,
                                    ![a].end = req[p].end,
                                    ![a].status = "confirmed",
                                    ![a].notes = req[p].snapNotes]
          /\ \E ok \in BOOLEAN : audit' = AuditAfter(ok, "appointment_rescheduled", a)
          /\ Finish(p, Success("modify", a))
    /\ UNCHANGED <<rpcAvailable, now, opsLeft>>

\* lines 332-334
ModifyUpdateRaise(p) ==
    /\ pc[p] = "mod_update"
    /\ Finish(p, Error("modify", "external"))
    /\ UNCHANGED <<appts, audit, rpcAvailable, now, opsLeft>>

\* ----------------------------------------------------- cancel_appointment
CancelReq(a, who) ==
    [NoReq EXCEPT !.op = "cancel", !.tenant = who[1], !.client = who[2],
                  !.appt = a, !.snapNotes = appts[a].notes]

\* cancel_appointment without the status test of lines 366-367
CancelVerifyOn_NoAlreadyTest(p, a, who) ==
    /\ Accept(p)
    /\ IF ~Owned(a, who[1], who[2])
       THEN Finish(p, Error("cancel", "not_found"))
       ELSE Goto(p, "can_update", CancelReq(a, who))
    /\ UNCHANGED <<appts, audit, rpcAvailable, now>>

\* cancel_appointment reading the row by id alone
CancelVerifyOn_NoOwnerTest(p, a, who) ==
    /\ Accept(p)
    /\ IF appts[a].status \in {"absent", "canceled", "completed"}
       THEN Finish(p, Error("cancel", "already"))
       ELSE Goto(p, "can_update", CancelReq(a, who))
    /\ UNCHANGED <<appts, audit, rpcAvailable, now>>

\* lines 345-367: ownership query, then the status test
CancelVerifyOn(p, a, who) ==
    /\ Accept(p)
    /\ IF ~Owned(a, who[1], who[2])
       THEN Finish(p, Error("cancel", "not_found"))
       ELSE IF appts[a].status \in {"canceled", "completed"}
       THEN Finish(p, Error("cancel", "already"))
       ELSE Goto(p, "can_update", CancelReq(a, who))
    /\ UNCHANGED <<appts, audit, rpcAvailable, now>>

CancelVerify(p) ==
    /\ pc[p] = "idle"
    /\ \E a \in ApptIds, who \in Callers : CancelVerifyOn(p, a, who)

\* lines 369-370
CancelVerifyRaise(p) ==
    /\ Accept(p)
    /\ Finish(p, Error("cancel", "external"))
    /\ UNCHANGED <<appts, audit, rpcAvailable, now>>

\* lines 373-402: update by id alone, then the audit entry
CancelUpdate(p) ==
    /\ pc[p] = "can_update"
    /\ LET a == req[p].appt
       IN /\ appts' = [appts EXCEPT ![a].status = "canceled",
                                    ![a].notes = req[p].snapNotes]
          /\ \E ok \in BOOLEAN : audit' = AuditAfter(ok, "appointment_canceled", a)
          /\ Finish(p, Success("cancel", a))
    /\ UNCHANGED <<rpcAvailable, now, opsLeft>>

\* lines 404-406
CancelUpdateRaise(p) ==
    /\ pc[p] = "can_update"
    /\ Finish(p, Error("cancel", "external"))
    /\ UNCHANGED <<appts, audit, rpcAvailable, now, opsLeft>>

\* ---------------------------------------------- _handle_appointment_button
ButtonActions == {"confirm", "cancel", "modify"}

ButtonReq(act, a, who) ==
    [NoReq EXCEPT !.op = "button", !.action = act, !.tenant = who[1],
                  !.client = who[2], !.appt = a, !.snapNotes = appts[a].notes]

\* lines 182-221, 247-249, 275-282: fetch with ownership, then the status
\* test of the action; "modify" only answers
ButtonFetchOn(p, act, a, who) ==
    /\ Accept(p)
    /\ IF ~Owned(a, who[1], who[2])
       THEN Finish(p, Error("button", "not_found"))
       ELSE IF act = "confirm" /\ appts[a].status # "pending"
       THEN Finish(p, Error("button", "already"))
       ELSE IF act = "cancel" /\ appts[a].status \in {"canceled", "completed"}
       THEN Finish(p, Error("button", "already"))
       ELSE IF act = "modify"
       THEN Finish(p, Reply("button", a))
       ELSE Goto(p, "btn_update", ButtonReq(act, a, who))
    /\ UNCHANGED <<appts, audit, rpcAvailable, now>>

ButtonFetch(p) ==
    /\ pc[p] = "idle"
    /\ \E act \in ButtonActions, a \in ApptIds, who \in Callers :
          ButtonFetchOn(p, act, a, who)

\* lines 207-209
ButtonFetchRaise(p) ==
    /\ Accept(p)
    /\ Finish(p, Error("button", "external"))
    /\ UNCHANGED <<appts, audit, rpcAvailable, now>>

\* lines 222-242 and 250-270: update by id alone, then the audit entry
ButtonUpdate(p) ==
    /\ pc[p] = "btn_update"
    /\ LET a == req[p].appt
           st == IF req[p].action = "confirm" THEN "confirmed" ELSE "canceled"
           entry == IF req[p].action = "confirm"
                    THEN "appointment_confirmed_by_client"
                    ELSE "appointment_canceled_by_client"
       IN /\ appts' = [appts EXCEPT ![a].status = st,
                                    ![a].notes = req[p].snapNotes]
          /\ \E ok \in BOOLEAN : audit' = AuditAfter(ok, entry, a)
          /\ Finish(p, Success("button", a))
    /\ UNCHANGED <<rpcAvailable, now, opsLeft>>

\* lines 243-245 and 271-273
ButtonUpdateRaise(p) ==
    /\ pc[p] = "btn_update"
    /\ Finish(p, Error("button", "external"))
    /\ UNCHANGED <<appts, audit, rpcAvailable, now, opsLeft>>

\* ------------------------------------------------------------ environment
Tick ==
    /\ now < MaxTime
    /\ now' = now + 1
    /\ UNCHANGED <<appts, audit, pc, req, result, rpcAvailable, opsLeft>>
    /\ UNCHANGED <<hookVars, schedVars, availVars, ingressVars, sendVars>>

\* the call has returned; the worker takes the next request
Return(p) ==
    /\ pc[p] = "done"
    /\ opsLeft > 0
    /\ pc' = [pc EXCEPT ![p] = "idle"]
    /\ result' = [result EXCEPT ![p] = NoResult]
    /\ UNCHANGED <<appts, audit, req, rpcAvailable, now, opsLeft>>
    /\ UNCHANGED <<hookVars, schedVars, availVars, ingressVars, sendVars>>

Next ==
    \/ \E p \in Procs :
          \/ BookReject(p) \/ BookRpcOk(p) \/ BookRpcRaise(p)
          \/ BookCheck(p) \/ BookCheckRaise(p) \/ BookInsert(p) \/ BookInsertRaise(p)
          \/ ModifyVerify(p) \/ ModifyVerifyRaise(p)
          \/ ModifyRpcOk(p) \/ ModifyRpcRaise(p) \/ ModifyCheck(p) \/ ModifyCheckRaise(p)
          \/ ModifyUpdate(p) \/ ModifyUpdateRaise(p)
          \/ CancelVerify(p) \/ CancelVerifyRaise(p)
          \/ CancelUpdate(p) \/ CancelUpdateRaise(p)
          \/ ButtonFetch(p) \/ ButtonFetchRaise(p)
          \/ ButtonUpdate(p) \/ ButtonUpdateRaise(p)
          \/ Return(p)
    \/ Tick

Spec == Init /\ [][Next]_vars

TypeOK ==
    /\ \A a \in ApptIds : appts[a].status \in Statuses \cup {"absent"}
    /\ now \in Times
    /\ opsLeft \in 0..MaxOps

\* ------------------------------------------------------------------ C1
\* C1: in every reachable state no two appointments of one staff member
\* with status pending, confirmed or in_service overlap as half-open
\* intervals [start_at, end_at).
C1_NoOverlap ==
    \A a, b \in ApptIds :
        (/\ a # b
         /\ appts[a].status \in ActiveStatuses
         /\ appts[b].status \in ActiveStatuses
         /\ appts[a].staff = appts[b].staff)
        => ~(appts[a].start < appts[b].end /\ appts[b].start < appts[a].end)

\* ------------------------------------------------------------------ C2
\* C2: two Book calls for the same staff member and the identical interval
\* never both return success, and never leave two rows for that staff and
\* interval.
C2_OneBookingWins ==
    \A p, q \in Procs :
        (/\ p # q
         /\ result[p] = Success("book", result[p].appt)
         /\ result[q] = Success("book", result[q].appt))
        => LET a == appts[result[p].appt]
               b == appts[result[q].appt]
           IN ~(a.staff = b.staff /\ a.start = b.start /\ a.end = b.end)

\* ------------------------------------------------------------------ C5
LegalTransitions ==
    {<<"pending", "confirmed">>, <<"pending", "canceled">>,
     <<"confirmed", "canceled">>, <<"confirmed", "in_service">>,
     <<"in_service", "completed">>}

\* C5: every change of the status of an existing appointment is one of the
\* legal transitions pending->confirmed, pending->canceled,
\* confirmed->canceled, confirmed->in_service, in_service->completed.
C5_OnlyLegalTransitions ==
    [][\A a \in ApptIds :
          (appts[a].status # "absent" /\ appts'[a].status # appts[a].status)
          => <<appts[a].status, appts'[a].status>> \in LegalTransitions]_vars

\* ------------------------------------------------------------------ C6
\* C6: once an appointment is canceled or completed, no step changes its
\* status, start_at or end_at.
C6_TerminalAbsorbing ==
    [][\A a \in ApptIds :
          appts[a].status \in TerminalStatuses
          => /\ appts'[a].status = appts[a].status
             /\ appts'[a].start = appts[a].start
             /\ appts'[a].end = appts[a].end]_vars

\* ------------------------------------------------------------------ C7
\* active rows of a staff member overlapping [s, e)
ActiveOverlapping(staff, s, e) ==
    {a \in ApptIds : /\ appts[a].staff = staff
                     /\ appts[a].status \in ActiveStatuses
                     /\ appts[a].start < e
                     /\ appts[a].end > s}

\* C7: Book goes on to its insert, on the legacy path, only from an overlap
\* check that found the interval free; a check that did not establish that
\* ends the call with the conflict error and nothing inserted.
C7_InsertOnlyAfterFreeCheck ==
    [][\A p \in Procs :
          (pc[p] = "book_check" /\ pc'[p] # "book_check")
          => IF ActiveOverlapping(req[p].staff, req[p].start, req[p].end) = {}
             THEN pc'[p] = "book_insert"
             ELSE /\ result'[p] = Error("book", "conflict")
                  /\ appts' = appts]_vars

\* ------------------------------------------------------------------ C8
FallbackPcs == {"book_check", "book_insert", "mod_check", "mod_update"}

\* C8: a call is on the legacy path (check-then-insert, check-then-update)
\* only when the atomic stored procedure is not available.
C8_FallbackOnlyWhenUnavailable ==
    \A p \in Procs : pc[p] \in FallbackPcs => ~rpcAvailable

\* ------------------------------------------------- Reschedule on its own
\* a calendar with one or two appointments; each worker takes one Reschedule
\* or Cancel call, and the two calls interleave
SecondAppts ==
    {AbsentAppt,
     [status |-> "confirmed", tenant |-> 1, client |-> 1, staff |-> 1,
      start |-> 0, end |-> 1, dur |-> 1, notes |-> {}],
     [status |-> "pending", tenant |-> 1, client |-> 1, staff |-> 1,
      start |-> 3, end |-> 4, dur |-> 1, notes |-> {}],
     [status |-> "confirmed", tenant |-> 1, client |-> 2, staff |-> 2,
      start |-> 1, end |-> 3, dur |-> 2, notes |-> {}]}

InitReschedule ==
    /\ \E st \in Statuses, second \in SecondAppts :
          appts = [a \in ApptIds |-> IF a = 1 THEN InitAppt(st)
                                     ELSE IF a = 2 THEN second ELSE AbsentAppt]
    /\ InitCalls
    /\ InitHook
    /\ waitingHuman = FALSE
    /\ InitRuns
    /\ InitNoAvail
    /\ InitNoIngress
    /\ InitNoSend

NextReschedule ==
    \/ \E p \in Procs :
          \/ ModifyVerify(p) \/ ModifyVerifyRaise(p)
          \/ ModifyRpcOk(p) \/ ModifyRpcRaise(p) \/ ModifyCheck(p) \/ ModifyCheckRaise(p)
          \/ ModifyUpdate(p) \/ ModifyUpdateRaise(p)
          \/ CancelVerify(p) \/ CancelVerifyRaise(p)
          \/ CancelUpdate(p) \/ CancelUpdateRaise(p)
    \/ Tick

SpecReschedule == InitReschedule /\ [][NextReschedule]_vars

\* ------------------------------------------------------------------ C9
C9_Refusal(a, who, st) ==
    IF ~(/\ appts[a].status # "absent"
         /\ appts[a].tenant = who[1]
         /\ appts[a].client = who[2]) THEN "not_found"
    ELSE IF appts[a].status \in {"in_service", "completed", "canceled"}
    THEN "invalid_status"
    ELSE IF st < now THEN "validation"
    ELSE "none"

\* C9: a Reschedule whose appointment does not exist for the calling tenant
\* and client, or whose appointment is not pending or confirmed when it is
\* read, or whose new start is in the past, returns the matching error
\* (not-found, invalid-status, validation) and changes no appointment and
\* no audit entry.
C9_RescheduleRefuses ==
    [][\A p \in Procs :
          (pc[p] = "idle" /\ (result'[p].op = "modify" \/ req'[p].op = "modify"))
          => \A a \in ApptIds, who \in Callers, st \in Times :
                (/\ C9_Refusal(a, who, st) # "none"
                 /\ ~(/\ pc'[p] = "done"
                      /\ result'[p] = Error("modify", C9_Refusal(a, who, st))
                      /\ appts' = appts
                      /\ audit' = audit))
                => ~ModifyVerifyOn(p, a, who, st)]_vars

\* each of the three refusals has been returned by a finished Reschedule
C9_Witness ==
    \E p \in Procs :
        /\ pc[p] = "done"
        /\ result[p] = Error("modify", "invalid_status")
        /\ \E q \in Procs : result[q] = Error("modify", "validation")

\* ----------------------------------------------------------------- C10
OthersOverlapping(a, staff, s, e) ==
    {b \in ApptIds : /\ b # a
                     /\ appts[b].staff = staff
                     /\ appts[b].status \in ActiveStatuses
                     /\ appts[b].start < e
                     /\ appts[b].end > s}

\* C10: Reschedule's conflict check does not count the appointment A being
\* moved against itself: when the new interval overlaps no other active
\* appointment of A's staff member the call goes on to move A, and when it
\* overlaps another one the call returns the conflict error and no
\* appointment changes.
C10_CheckExcludesSelf ==
    [][\A p \in Procs :
          (pc[p] \in {"mod_rpc", "mod_check"} /\ pc'[p] # pc[p])
          =>
          LET a == req[p].appt
              others == OthersOverlapping(a, appts[a].staff, req[p].start, req[p].end)
          IN /\ pc[p] = "mod_check"
                => IF others = {}
                   THEN pc'[p] = "mod_update"
                   ELSE /\ result'[p] = Error("modify", "conflict")
                        /\ appts' = appts
             /\ (/\ pc[p] = "mod_rpc"
                 /\ pc'[p] = "done"
                 /\ appts[a].status \in {"pending", "confirmed"}
                 /\ appts[a].tenant = req[p].tenant
                 /\ appts[a].client = req[p].client)
                => IF others = {}
                   THEN /\ result'[p] = Success("modify", a)
                        /\ appts'[a].start = req[p].start
                        /\ appts'[a].end = req[p].end
                   ELSE /\ result'[p] = Error("modify", "conflict")
                        /\ appts' = appts]_vars

\* ------------------------------------------------- handle_webhook (dedup)
\* _add_to_dedup_cache: the caches the call can leave behind; list(set) has
\* no defined order, so any MAX_DEDUP_SIZE \div 2 entries may be the evicted
AddToDedupCache(c, m) ==
    LET added == c \cup {m}
    IN  IF Cardinality(added) > MAX_DEDUP_SIZE
        THEN {added \ gone : gone \in {g \in SUBSET added :
                                  Cardinality(g) = MAX_DEDUP_SIZE \div 2}}
        ELSE {added}

\* delivery d of message m is at label in worker w; what a returned handler
\* held is forgotten
At(d, label, w, m) ==
    /\ hpc' = [hpc EXCEPT ![d] = label]
    /\ hworker' = [hworker EXCEPT ![d] = IF label = "done" THEN 0 ELSE w]
    /\ hmsg' = [hmsg EXCEPT ![d] = IF label = "done" THEN 0 ELSE m]

\* the event-loop turn of a delivery d of message m to worker w, up to the
\* first real suspension (mark_as_read); duplicate says what the lookup in
\* whatsapp_messages answered
Gate(d, w, m, duplicate) ==
    /\ IF m \in cache[w]
       THEN /\ At(d, "done", w, m)
            /\ UNCHANGED cache
       ELSE /\ At(d, IF duplicate THEN "done" ELSE "accepted", w, m)
            /\ \E c \in AddToDedupCache(cache[w], m) :
                  cache' = [cache EXCEPT ![w] = c]
    /\ UNCHANGED <<msgLog, outbound, handled, waitingHuman, bookVars, schedVars, availVars, ingressVars, sendVars>>

\* both dedup levels are consulted
Receive(d) ==
    /\ hpc[d] = "waiting"
    /\ \E w \in Workers, m \in MsgIds : Gate(d, w, m, msgLog[m] > 0)

\* the lookup in whatsapp_messages raises: the handler relies on memory only
ReceiveDbCheckRaise(d) ==
    /\ hpc[d] = "waiting"
    /\ \E w \in Workers, m \in MsgIds : Gate(d, w, m, FALSE)

\* mark_as_read, client, conversation, then log_message of the inbound text;
\* log_message swallows its own exceptions, so the row is written or lost
LogInbound(d) ==
    /\ hpc[d] = "accepted"
    /\ \E written \in BOOLEAN :
          msgLog' = [msgLog EXCEPT ![hmsg[d]] = IF written THEN @ + 1 ELSE @]
    /\ At(d, IF waitingHuman THEN "done" ELSE "logged", hworker[d], hmsg[d])
    /\ UNCHANGED <<cache, outbound, handled, waitingHuman, bookVars, schedVars, availVars, ingressVars, sendVars>>

\* the button handler or process_message acts on the message
Process(d) ==
    /\ hpc[d] = "logged"
    /\ handled' = [handled EXCEPT ![hmsg[d]] = @ + 1]
    /\ At(d, "processed", hworker[d], hmsg[d])
    /\ UNCHANGED <<cache, msgLog, outbound, waitingHuman, bookVars, schedVars, availVars, ingressVars, sendVars>>

\* the reply goes out (or the API refuses it) and the handler returns
SendReply(d) ==
    /\ hpc[d] = "processed"
    /\ \E sent \in BOOLEAN :
          outbound' = [outbound EXCEPT ![hmsg[d]] = IF sent THEN @ + 1 ELSE @]
    /\ At(d, "done", hworker[d], hmsg[d])
    /\ UNCHANGED <<cache, msgLog, handled, waitingHuman, bookVars, schedVars, availVars, ingressVars, sendVars>>

\* any step inside the try raises: the apology text is sent (or fails too)
HandlerRaise(d) ==
    /\ hpc[d] \in {"accepted", "logged", "processed"}
    /\ \E sent \in BOOLEAN :
          outbound' = [outbound EXCEPT ![hmsg[d]] = IF sent THEN @ + 1 ELSE @]
    /\ At(d, "done", hworker[d], hmsg[d])
    /\ UNCHANGED <<cache, msgLog, handled, waitingHuman, bookVars, schedVars, availVars, ingressVars, sendVars>>

\* the worker process restarts: its cache is empty again, what it was
\* handling is gone
Restart(w) ==
    /\ cache' = [cache EXCEPT ![w] = {}]
    /\ hpc' = [d \in Deliveries |-> IF hworker[d] = w THEN "done" ELSE hpc[d]]
    /\ hworker' = [d \in Deliveries |-> IF hworker[d] = w THEN 0 ELSE hworker[d]]
    /\ hmsg' = [d \in Deliveries |-> IF hworker[d] = w THEN 0 ELSE hmsg[d]]
    /\ UNCHANGED <<msgLog, outbound, handled, waitingHuman, bookVars, schedVars, availVars, ingressVars, sendVars>>

InitWebhook ==
    /\ appts = [a \in ApptIds |-> AbsentAppt]
    /\ InitCalls
    /\ rpcAvailable
    /\ InitHook
    /\ waitingHuman \in BOOLEAN
    /\ InitRuns
    /\ InitNoAvail
    /\ InitNoIngress
    /\ InitNoSend

NextWebhook ==
    \/ \E d \in Deliveries :
          \/ Receive(d)
          \/ ReceiveDbCheckRaise(d)
          \/ LogInbound(d)
          \/ Process(d)
          \/ SendReply(d)
          \/ HandlerRaise(d)
    \/ \E w \in Workers : Restart(w)

SpecWebhook == InitWebhook /\ [][NextWebhook]_vars

\* C3: however often one inbound event id is delivered, the deliveries
\* together write at most one inbound log row, act at most once on the
\* message and send at most one reply.
C3_AtMostOncePerEvent ==
    \A m \in MsgIds : msgLog[m] <= 1 /\ handled[m] <= 1 /\ outbound[m] <= 1

\* ------------------------------------------------------------- scheduler
Marker(job) == IF job = "morning" THEN MorningMarker ELSE ReminderMarker

\* first instant of the day after t
Tomorrow(t) == ((t \div DAY) + 1) * DAY

\* the appointments a job's query returns at time t
Eligible(job, t) ==
    IF job = "morning"
    THEN {a \in ApptIds : /\ appts[a].status = "pending"
                          /\ appts[a].start >= Tomorrow(t)
                          /\ appts[a].start < Tomorrow(t) + DAY}
    ELSE {a \in ApptIds : /\ appts[a].status = "confirmed"
                          /\ appts[a].start >= t + REMINDER_LEAD
                          /\ appts[a].start < t + REMINDER_LEAD + REMINDER_WIDTH}

\* run r is at label with rows left to visit and row in hand; sat is the
\* time its query was made (now of lines 70 and 201)
Run(r, label, job, rows, row) ==
    /\ spc' = [spc EXCEPT ![r] = label]
    /\ sat' = [sat EXCEPT ![r] = IF label = "idle" THEN 0
                                   ELSE IF spc[r] = "idle" THEN now ELSE @]
    /\ sjob' = [sjob EXCEPT ![r] = job]
    /\ ssnap' = [ssnap EXCEPT ![r] = rows]
    /\ srow' = [srow EXCEPT ![r] = row]

Delivered(a, job) == [sends EXCEPT ![a][job] = @ + 1]

\* the channel calls run r has made for the row it has just handled, each
\* with what it answered
Tried(r, calls) == stry' = [stry EXCEPT ![r] = calls]

\* send_button_message (whatsapp_api.py lines 83-88): the message is
\* accepted, refused because the client is outside the 24 hour window,
\* refused with another status of 400 or more, or the request raises
ButtonAnswers == {"ok", "outside_window", "refused", "raise"}
\* send_template_message (whatsapp_api.py lines 158-163)
TemplateAnswers == {"ok", "refused", "raise"}

\* a scheduler fires a job: the query snapshots the rows and their notes
JobQueryOf(r, job) ==
    /\ spc[r] = "idle"
    /\ Run(r, "loop", job,
           {[id |-> a, notes |-> appts[a].notes] : a \in Eligible(job, now)},
           NoRow)
    /\ Tried(r, <<>>)
    /\ UNCHANGED <<appts, audit, pc, req, result, rpcAvailable, now, sends, hookVars, availVars, ingressVars, sendVars>>

JobQuery(r) ==
    /\ opsLeft > 0
    /\ opsLeft' = opsLeft - 1
    /\ \E job \in Jobs : JobQueryOf(r, job)
    /\ UNCHANGED due

\* the query raises: the job logs and returns
JobQueryRaise(r) ==
    /\ spc[r] = "idle"
    /\ opsLeft > 0
    /\ opsLeft' = opsLeft - 1
    /\ UNCHANGED <<appts, audit, pc, req, result, rpcAvailable, now, hookVars, schedVars, availVars, ingressVars, sendVars>>

\* a row whose notes, as read, hold the job's marker is passed over
JobSkip(r) ==
    /\ spc[r] = "loop"
    /\ \E row \in ssnap[r] :
          /\ Marker(sjob[r]) \in row.notes
          /\ Run(r, "loop", sjob[r], ssnap[r] \ {row}, NoRow)
    /\ Tried(r, <<>>)
    /\ UNCHANGED <<sends, due, bookVars, hookVars, availVars, ingressVars, sendVars>>

\* morning confirmation of one row (lines 142-177): the button message,
\* and the template whenever the button call returned None or raised; sent
\* is set by a truthy button result (line 150) and by a template call that
\* did not raise, whatever it returned (line 173)
MorningSend(r) ==
    /\ spc[r] = "loop"
    /\ sjob[r] = "morning"
    /\ \E row \in ssnap[r], button \in ButtonAnswers, template \in TemplateAnswers :
          LET calls == IF button = "ok"
                       THEN <<[call |-> "send_button", answer |-> button]>>
                       ELSE <<[call |-> "send_button", answer |-> button],
                              [call |-> "send_template", answer |-> template]>>
              sent == button = "ok" \/ template # "raise"
          IN /\ MorningMarker \notin row.notes
             /\ sends' = IF \E i \in DOMAIN calls : calls[i].answer = "ok"
                         THEN Delivered(row.id, "morning") ELSE sends
             /\ Tried(r, calls)
             /\ IF sent
                THEN Run(r, "mark", "morning", ssnap[r] \ {row}, row)
                ELSE Run(r, "loop", "morning", ssnap[r] \ {row}, NoRow)
    /\ UNCHANGED <<due, bookVars, hookVars, availVars, ingressVars, sendVars>>

\* 1h reminder of one row: the marker is written whatever send_text_message
\* returned, unless it raised
ReminderSend(r) ==
    /\ spc[r] = "loop"
    /\ sjob[r] = "reminder"
    /\ \E row \in ssnap[r], outcome \in {"sent", "none", "raise"} :
          /\ ReminderMarker \notin row.notes
          /\ sends' = IF outcome = "sent"
                      THEN Delivered(row.id, "reminder") ELSE sends
          /\ Tried(r, <<[call |-> "send_text", answer |-> outcome]>>)
          /\ IF outcome = "raise"
             THEN Run(r, "loop", "reminder", ssnap[r] \ {row}, NoRow)
             ELSE Run(r, "mark", "reminder", ssnap[r] \ {row}, row)
    /\ UNCHANGED <<due, bookVars, hookVars, availVars, ingressVars, sendVars>>

\* the notes are overwritten with the notes as read plus the marker
Mark(r) ==
    /\ spc[r] = "mark"
    /\ appts' = [appts EXCEPT ![srow[r].id].notes =
                    srow[r].notes \cup {Marker(sjob[r])}]
    /\ Run(r, "loop", sjob[r], ssnap[r], NoRow)
    /\ Tried(r, <<>>)
    /\ UNCHANGED <<audit, pc, req, result, rpcAvailable, now, opsLeft, sends, due, hookVars, availVars, ingressVars, sendVars>>

\* the notes update raises: the reminder job goes on with the next row, the
\* morning job is aborted
MarkRaise(r) ==
    /\ spc[r] = "mark"
    /\ IF sjob[r] = "morning"
       THEN Run(r, "idle", "none", {}, NoRow)
       ELSE Run(r, "loop", sjob[r], ssnap[r], NoRow)
    /\ Tried(r, <<>>)
    /\ UNCHANGED <<sends, due, bookVars, hookVars, availVars, ingressVars, sendVars>>

\* every row visited: the run is over
JobEnd(r) ==
    /\ spc[r] = "loop"
    /\ ssnap[r] = {}
    /\ Run(r, "idle", "none", {}, NoRow)
    /\ Tried(r, <<>>)
    /\ UNCHANGED <<sends, due, bookVars, hookVars, availVars, ingressVars, sendVars>>

\* a confirmed appointment about one hour ahead, a pending one tomorrow
InitSched ==
    /\ \E st \in {REMINDER_LEAD, REMINDER_LEAD + 1} :
          appts = [a \in ApptIds |->
                     IF a = 1 THEN [InitAppt("confirmed") EXCEPT
                                       !.start = st, !.end = st + 2]
                     ELSE IF a = 2 THEN [InitAppt("pending") EXCEPT
                                       !.client = 2, !.start = DAY + 1, !.end = DAY + 3]
                     ELSE AbsentAppt]
    /\ InitCalls
    /\ rpcAvailable
    /\ InitHook
    /\ waitingHuman = FALSE
    /\ InitRuns
    /\ InitNoAvail
    /\ InitNoIngress
    /\ InitNoSend

NextSched ==
    \/ \E r \in Runs :
          \/ JobQuery(r)
          \/ JobQueryRaise(r)
          \/ JobSkip(r)
          \/ MorningSend(r)
          \/ ReminderSend(r)
          \/ Mark(r)
          \/ MarkRaise(r)
          \/ JobEnd(r)
    \/ Tick

SpecSched == InitSched /\ [][NextSched]_vars

\* C4: for every appointment and notification type at most one successful
\* send ever happens, whatever job runs take place and however they overlap.
C4_AtMostOneSend ==
    \A a \in ApptIds, job \in Jobs : sends[a][job] <= 1

\* ----------------------------------------------------------------- C11
\* C11: a Cancel whose appointment, as the ownership query reads it, is
\* already canceled or completed returns the already-in-that-state error,
\* changes no appointment and appends no audit entry.
C11_CancelAlreadyTerminal ==
    [][\A p \in Procs :
          (pc[p] = "idle" /\ (result'[p].op = "cancel" \/ req'[p].op = "cancel"))
          => \A a \in ApptIds, who \in Callers :
                (/\ appts[a].status \in TerminalStatuses
                 /\ appts[a].tenant = who[1]
                 /\ appts[a].client = who[2]
                 /\ ~(/\ pc'[p] = "done"
                      /\ result'[p] = Error("cancel", "already")
                      /\ appts' = appts
                      /\ audit' = audit))
                => ~CancelVerifyOn(p, a, who)]_vars

\* a Cancel has been refused because its appointment was already terminal
C11_Witness ==
    \E p \in Procs :
        /\ pc[p] = "done"
        /\ result[p] = Error("cancel", "already")
        /\ \E a \in ApptIds : appts[a].status \in TerminalStatuses

\* ----------------------------------------------------------------- C12
AuditCount(action, a) ==
    Cardinality({i \in DOMAIN audit : audit[i] = AuditEntry(action, a)})

SuccessCount(op, a) ==
    Cardinality({p \in Procs : result[p] = Success(op, a)})

\* C12: every Reschedule and every Cancel that returned success has appended
\* its audit entry: for each appointment the successful reschedule (cancel)
\* results are as many as the rescheduled (canceled) audit entries.
C12_SuccessIsAudited ==
    \A a \in ApptIds :
        /\ SuccessCount("modify", a) = AuditCount("appointment_rescheduled", a)
        /\ SuccessCount("cancel", a) = AuditCount("appointment_canceled", a)

\* ------------------------------------------ one tool call in each worker
\* each worker takes one Book, Reschedule or Cancel call; the calls interleave
NextCalls ==
    \/ \E p \in Procs :
          \/ BookReject(p) \/ BookRpcOk(p) \/ BookRpcRaise(p)
          \/ BookCheck(p) \/ BookCheckRaise(p) \/ BookInsert(p) \/ BookInsertRaise(p)
          \/ ModifyVerify(p) \/ ModifyVerifyRaise(p)
          \/ ModifyRpcOk(p) \/ ModifyRpcRaise(p) \/ ModifyCheck(p) \/ ModifyCheckRaise(p)
          \/ ModifyUpdate(p) \/ ModifyUpdateRaise(p)
          \/ CancelVerify(p) \/ CancelVerifyRaise(p)
          \/ CancelUpdate(p) \/ CancelUpdateRaise(p)
    \/ Tick

SpecCalls == Init /\ [][NextCalls]_vars

\* ----------------------------------------------------------------- C13
\* C13: at the step that returns success the stored state matches: after
\* Book a new appointment with status confirmed exists (for the staff and
\* interval the call carried); after Reschedule the appointment's start and
\* end are both the requested ones and its status is confirmed; after
\* Cancel its status is canceled.
C13_SuccessMatchesState ==
    [][\A p \in Procs :
          (pc[p] # "done" /\ pc'[p] = "done" /\ result'[p].kind = "success")
          => LET a == result'[p].appt
             IN /\ result'[p].op = "book"
                   => /\ appts[a].status = "absent"
                      /\ appts'[a].status = "confirmed"
                      /\ appts'[a].end > appts'[a].start
                      /\ pc[p] = "book_insert"
                         => /\ appts'[a].staff = req[p].staff
                            /\ appts'[a].start = req[p].start
                            /\ appts'[a].end = req[p].end
                /\ result'[p].op = "modify"
                   => /\ a = req[p].appt
                      /\ appts'[a].start = req[p].start
                      /\ appts'[a].end = req[p].end
                      /\ appts'[a].status = "confirmed"
                /\ result'[p].op = "cancel"
                   => /\ a = req[p].appt
                      /\ appts'[a].status = "canceled"]_vars

\* a Book, a Reschedule that changed the start, and a Cancel have succeeded
C13_Witness ==
    /\ \E p \in Procs : result[p].op = "modify" /\ result[p].kind = "success"
                        /\ appts[result[p].appt].start # 1
    /\ \E p \in Procs : result[p].op \in {"book", "cancel"} /\ result[p].kind = "success"

\* ------------------------------------------------- job runs in succession
\* a run starts only when no other run is in flight
JobQueryAlone(r) ==
    /\ \A q \in Runs : spc[q] = "idle"
    /\ JobQuery(r)

NextSchedSeq ==
    \/ \E r \in Runs :
          \/ JobQueryAlone(r)
          \/ JobQueryRaise(r)
          \/ JobSkip(r)
          \/ MorningSend(r)
          \/ ReminderSend(r)
          \/ Mark(r)
          \/ MarkRaise(r)
          \/ JobEnd(r)
    \/ Tick

SpecSchedSeq == InitSched /\ [][NextSchedSeq]_vars

\* ----------------------------------------------------------------- C14
\* C14: when runs of a job follow one another (each starts after the one
\* before has finished), a notification is sent for an appointment only if
\* none was sent for it by an earlier run: the run after a sending run
\* sends nothing for that appointment.
C14_SecondRunSendsNothing ==
    [][\A a \in ApptIds, job \in Jobs :
          sends'[a][job] > sends[a][job] => sends[a][job] = 0]_vars

\* ----------------------------------------------------------------- C15
\* C15: an appointment's notes hold a job's marker only if a delivery of
\* that notification for that appointment succeeded; a run whose delivery
\* attempts for the appointment all failed writes no marker.
C15_MarkerOnlyAfterDelivery ==
    \A a \in ApptIds, job \in Jobs :
        Marker(job) \in appts[a].notes => sends[a][job] >= 1

\* ----------------------------------------------------------------- C16
\* C16: when the send of a reminder run for an appointment has failed, the
\* run of the reminder job one interval later selects that appointment
\* again: it is still inside that run's window, and no marker is written
\* for it as long as no reminder was delivered.
C16_FailedReminderIsRetried ==
    [][\A r \in Runs :
          /\ (spc[r] = "loop" /\ sjob[r] = "reminder" /\ sends' = sends)
             => \A row \in ssnap[r] \ ssnap'[r] :
                   ReminderMarker \notin row.notes
                   => row.id \in Eligible("reminder", sat[r] + REMINDER_EVERY)
          /\ (spc[r] = "mark" /\ sjob[r] = "reminder" /\ spc'[r] # "mark"
              /\ sends[srow[r].id]["reminder"] = 0)
             => ReminderMarker \notin appts'[srow[r].id].notes]_vars


\* ----------------------------------------------------- check_availability
AvDates == {"past", "today", "future"}
\* staff_id argument: 0 none given, 3 a reference that resolves to nobody
AvStaffArgs == {0, 1, 2, 3}
\* closures of the date: none, one without staff_id, one for staff 1
AvClosures == {"none", "tenant", "staff1"}
\* working_hours rows of one staff member for the weekday
AvHours == {<<>>, <<<<0, 5>>>>, <<<<1, 3>>, <<3, 5>>>>}
\* the zone the datastore renders start_at/end_at in: the salon's, or UTC
AvShifts == {0, ROME_UTC_OFFSET}
\* the salon's clock when the request is handled
AvNows == {ROME_UTC_OFFSET, ROME_UTC_OFFSET + 1}

\* datetime.fromisoformat(...).replace(tzinfo=None).time(): the clock time
\* as rendered, the offset dropped without conversion; t is salon time
RenderedTime(t, shift) == t - shift

\* booked_intervals of lines 139-146 from the rows the query returned
BookedIntervals(s, shift) ==
    {<<RenderedTime(appts[a].start, shift), RenderedTime(appts[a].end, shift)>> :
        a \in {b \in ApptIds : /\ appts[b].staff = s
                               /\ appts[b].status \in ActiveStatuses}}

\* lines 169-173
IsFree(c, dur, booked) ==
    \A b \in booked : ~(c < b[2] /\ c + dur > b[1])

\* datetime.now().time() of line 163: the naive clock of the server, which
\* runs `behind` the salon's clock (0 on a Europe/Rome server, the offset
\* on a UTC one)
ServerTime(behind) == now - behind

RECURSIVE WindowSlots(_, _, _, _, _, _)
\* the while loop of lines 157-183 from candidate c; today is the test of
\* line 162 and carries the server's clock lag
WindowSlots(s, c, wEnd, dur, booked, today) ==
    IF c + dur > wEnd THEN <<>>
    ELSE LET rest == WindowSlots(s, c + DEFAULT_SLOT_MINUTES, wEnd, dur, booked, today)
         IN IF today.is /\ c <= ServerTime(today.behind) THEN rest
            ELSE IF IsFree(c, dur, booked)
            THEN <<[staff |-> s, start |-> c, end |-> c + dur]>> \o rest
            ELSE rest

RECURSIVE StaffSlots(_, _, _, _, _)
\* the for loop of line 149 over the working_hours rows
StaffSlots(s, windows, dur, booked, today) ==
    IF windows = <<>> THEN <<>>
    ELSE WindowSlots(s, Head(windows)[1], Head(windows)[2], dur, booked, today)
         \o StaffSlots(s, Tail(windows), dur, booked, today)

\* a rendering without the leading zero of the hour ("9:30")
TimeText_Unpadded(t) ==
    LET m == 540 + 30 * t
    IN (IF m \div 60 < 10 THEN <<>> ELSE <<(m \div 60) \div 10>>)
       \o <<(m \div 60) % 10, 10, (m % 60) \div 10, (m % 60) % 10>>

\* slot_start.strftime("%H:%M") of line 177 as character codes, a digit d
\* as d and the colon as 10; model time t is 09:00 plus t half hours
TimeText(t) ==
    LET m == 540 + 30 * t
    IN <<(m \div 60) \div 10, (m \div 60) % 10, 10, (m % 60) \div 10, (m % 60) % 10>>

RECURSIVE TextLeq(_, _)
\* a <= b of two Python strings
TextLeq(a, b) ==
    IF a = <<>> THEN TRUE
    ELSE IF b = <<>> THEN FALSE
    ELSE IF Head(a) # Head(b) THEN Head(a) < Head(b)
    ELSE TextLeq(Tail(a), Tail(b))

RECURSIVE InsertByTime(_, _)
\* x goes after every slot whose key is not greater (list.sort is stable)
InsertByTime(sorted, x) ==
    IF sorted = <<>> THEN <<x>>
    ELSE IF TextLeq(TimeText(Head(sorted).start), TimeText(x.start))
    THEN <<Head(sorted)>> \o InsertByTime(Tail(sorted), x)
    ELSE <<x>> \o sorted

RECURSIVE SortByTime(_)
\* all_available_slots.sort(key=time), line 186
SortByTime(slots) ==
    IF slots = <<>> THEN <<>>
    ELSE InsertByTime(SortByTime(SubSeq(slots, 1, Len(slots) - 1)), slots[Len(slots)])

AvDone(out, slots) ==
    /\ avPc' = "done"
    /\ avOut' = out
    /\ avSlots' = slots
    /\ avTodo' = <<>>

AvFrame == UNCHANGED <<avIn, bookVars, hookVars, schedVars, ingressVars, sendVars>>

\* lines 33-40: the date
AvValidate ==
    /\ avPc = "start"
    /\ IF avIn.date = "past"
       THEN /\ AvDone([kind |-> "error", available |-> FALSE, reason |-> "validation"], <<>>)
            /\ UNCHANGED avClosed
       ELSE /\ avPc' = "closures"
            /\ UNCHANGED <<avTodo, avClosed, avSlots, avOut>>
    /\ AvFrame

\* lines 57-75: the closures of the date were read
AvClosuresRead ==
    /\ avPc = "closures"
    /\ IF avIn.closure = "tenant"
       THEN /\ AvDone([kind |-> "closed", available |-> FALSE, reason |-> "closure"], <<>>)
            /\ UNCHANGED avClosed
       ELSE /\ avPc' = "stafflist"
            /\ avClosed' = IF avIn.closure = "staff1" THEN {1} ELSE {}
            /\ UNCHANGED <<avTodo, avSlots, avOut>>
    /\ AvFrame

\* lines 76-77: reading the closures raised
AvClosuresRaise ==
    /\ avPc = "closures"
    /\ avPc' = "stafflist"
    /\ avClosed' = {}
    /\ UNCHANGED <<avTodo, avSlots, avOut>>
    /\ AvFrame

\* lines 80-94: the staff to visit
AvStaffList ==
    /\ avPc = "stafflist"
    /\ LET list == IF avIn.staff = 0 THEN <<1, 2>>
                   ELSE IF avIn.staff \in Staffs THEN <<avIn.staff>> ELSE <<>>
       IN IF list = <<>>
          THEN AvDone([kind |-> "no_staff", available |-> FALSE, reason |-> "no_staff"], <<>>)
          ELSE /\ avPc' = "staff"
               /\ avTodo' = list
               /\ UNCHANGED <<avSlots, avOut>>
    /\ UNCHANGED avClosed
    /\ AvFrame

\* lines 89-91
AvStaffListRaise ==
    /\ avPc = "stafflist"
    /\ AvDone([kind |-> "error", available |-> FALSE, reason |-> "external"], <<>>)
    /\ UNCHANGED avClosed
    /\ AvFrame

\* line 162 (target_date == today) with the clock line 163 will read
AvToday == [is |-> avIn.date = "today", behind |-> avIn.clock]

\* one turn of the loop of lines 98-183 with the slots it adds
AvTurn(added) ==
    /\ avPc = "staff"
    /\ avTodo # <<>>
    /\ avTodo' = Tail(avTodo)
    /\ avSlots' = avSlots \o added
    /\ UNCHANGED <<avPc, avClosed, avOut>>
    /\ AvFrame

\* both reads of the staff member answered
AvStaff ==
    /\ avTodo # <<>>
    /\ LET s == Head(avTodo)
       IN AvTurn(IF s \in avClosed \/ avIn.hours[s] = <<>> THEN <<>>
                 ELSE StaffSlots(s, avIn.hours[s], avIn.dur,
                                 BookedIntervals(s, avIn.shift), AvToday))

\* lines 115-116: reading the working hours raised
AvStaffHoursRaise ==
    /\ avTodo # <<>>
    /\ Head(avTodo) \notin avClosed
    /\ AvTurn(<<>>)

\* lines 136-137: reading the appointments raised, taken as no appointments
AvStaffApptsRaise ==
    /\ avTodo # <<>>
    /\ LET s == Head(avTodo)
       IN /\ s \notin avClosed
          /\ avIn.hours[s] # <<>>
          /\ AvTurn(StaffSlots(s, avIn.hours[s], avIn.dur, {}, AvToday))

\* lines 186-199
AvReturn ==
    /\ avPc = "staff"
    /\ avTodo = <<>>
    /\ AvDone([kind |-> "slots", available |-> Len(avSlots) > 0, reason |-> "none"],
              SortByTime(avSlots))
    /\ UNCHANGED avClosed
    /\ AvFrame

\* the appointments of the date, in salon time
AvAppts ==
    {[a \in ApptIds |->
        IF a = 1 THEN [InitAppt(st) EXCEPT !.start = b, !.end = b + 1, !.dur = 1]
        ELSE IF a = 2 /\ second
        THEN [InitAppt("pending") EXCEPT !.staff = 2, !.start = 3, !.end = 5]
        ELSE AbsentAppt] :
     st \in {"confirmed", "canceled"}, b \in {2, 3}, second \in BOOLEAN}

InitAvail ==
    /\ appts \in AvAppts
    /\ audit = <<>>
    /\ pc = [p \in Procs |-> "idle"]
    /\ req = [p \in Procs |-> NoReq]
    /\ result = [p \in Procs |-> NoResult]
    /\ rpcAvailable = TRUE
    /\ now \in AvNows
    /\ opsLeft = MaxOps
    /\ InitHook
    /\ waitingHuman = FALSE
    /\ InitRuns
    /\ avIn \in [date : AvDates, dur : Durations, staff : AvStaffArgs,
                 closure : AvClosures, hours : [Staffs -> AvHours], shift : AvShifts,
                 clock : AvShifts]
    /\ avPc = "start"
    /\ avTodo = <<>>
    /\ avClosed = {}
    /\ avSlots = <<>>
    /\ avOut = NoAvOut
    /\ InitNoIngress
    /\ InitNoSend

NextAvail ==
    \/ AvValidate
    \/ AvClosuresRead
    \/ AvClosuresRaise
    \/ AvStaffList
    \/ AvStaffListRaise
    \/ AvStaff
    \/ AvStaffHoursRaise
    \/ AvStaffApptsRaise
    \/ AvReturn

SpecAvail == InitAvail /\ [][NextAvail]_vars


\* ----------------------------------------------------------------- C17
\* active appointments of staff member s that [c, e) overlaps, in salon time
AvOverlapped(s, c, e) ==
    {a \in ApptIds : /\ appts[a].staff = s
                     /\ appts[a].status \in ActiveStatuses
                     /\ c < appts[a].end
                     /\ e > appts[a].start}

\* C17: every returned slot lies inside a working-hours window of its staff
\* member (slot start + duration <= window end) and overlaps no pending,
\* confirmed or in_service appointment of that staff member.
C17_SlotsInsideHoursAndFree ==
    (avPc = "done" /\ avOut.kind = "slots")
    => \A i \in DOMAIN avSlots :
          LET x == avSlots[i]
          IN /\ \E k \in DOMAIN avIn.hours[x.staff] :
                   /\ avIn.hours[x.staff][k][1] <= x.start
                   /\ x.start + avIn.dur <= avIn.hours[x.staff][k][2]
             /\ x.end = x.start + avIn.dur
             /\ AvOverlapped(x.staff, x.start, x.end) = {}

\* ----------------------------------------------------------------- C18
\* the slots the loop turn of the step has added
AvAdded == SubSeq(avSlots', Len(avSlots) + 1, Len(avSlots'))

\* candidates of window w: w[1] + k * step, ending at or before w[2], free
AvExpected(s, w, dur) ==
    {c \in w[1]..w[2] : /\ (c - w[1]) % DEFAULT_SLOT_MINUTES = 0
                        /\ c + dur <= w[2]
                        /\ AvOverlapped(s, c, c + dur) = {}}

\* C18: for a staff member with one working window on a future date, whose
\* working hours and appointments were read, the slots are exactly the
\* candidates window_start + k * granularity that end at or before the
\* window end and overlap no active appointment, each once.
C18_ExactlyTheFreeCandidates ==
    [][(/\ avPc = "staff"
        /\ avTodo # <<>>
        /\ avIn.date = "future"
        /\ Head(avTodo) \notin avClosed
        /\ Len(avIn.hours[Head(avTodo)]) = 1
        /\ AvStaff)
       => LET s == Head(avTodo)
              expected == AvExpected(s, avIn.hours[s][1], avIn.dur)
          IN /\ {AvAdded[i].start : i \in DOMAIN AvAdded} = expected
             /\ Len(AvAdded) = Cardinality(expected)
             /\ \A i \in DOMAIN AvAdded : AvAdded[i].staff = s]_vars

\* ----------------------------------------------------------------- C19
\* C19: when a closure without staff reference exists on the requested
\* date, the answer is available = false with the closure's reason and no
\* slot, whatever the hours and the appointments.
C19_TenantClosureShortCircuits ==
    (avPc = "done" /\ avIn.closure = "tenant" /\ avIn.date # "past")
    => /\ avOut = [kind |-> "closed", available |-> FALSE, reason |-> "closure"]
       /\ avSlots = <<>>

\* ----------------------------------------------------------------- C20
\* C20: a loop turn in which reading the staff member's working hours or
\* appointments failed adds no slot for that staff member, and the
\* computation goes on with the other staff members.
C20_FailedReadGivesNoSlots ==
    [][(AvStaffHoursRaise \/ AvStaffApptsRaise)
       => /\ avSlots' = avSlots
          /\ avPc' = "staff"]_vars


\* ----------------------------------------------------------------- C21
\* C21: the step that accepts a delivery (both dedup tiers said not seen)
\* leaves the id in the worker's cache and has touched nothing else yet: no
\* log row, no processing, no send; and a delivery whose id is in the
\* worker's cache is never accepted.
C21_CachedBeforeSideEffects ==
    [][\A d \in Deliveries :
          (hpc[d] = "waiting" /\ hpc'[d] = "accepted")
          => /\ hmsg'[d] \notin cache[hworker'[d]]
             /\ hmsg'[d] \in cache'[hworker'[d]]
             /\ UNCHANGED <<msgLog, outbound, handled>>]_vars

\* ----------------------------------------------------------------- C22
\* C22: when the lookup in whatsapp_messages fails, the check answers from
\* the cache alone: an id absent from the cache is accepted for processing
\* and is in the cache afterwards, an id present is dropped.
C22_LookupFailureFallsBackToCache ==
    [][\A d \in Deliveries, w \in Workers, m \in MsgIds :
          (hpc[d] = "waiting" /\ Gate(d, w, m, FALSE))
          => IF m \in cache[w]
             THEN hpc'[d] = "done" /\ cache' = cache
             ELSE hpc'[d] = "accepted" /\ m \in cache'[w]]_vars


\* ------------------------------------------------- _add_to_dedup_cache
\* the ids of seq that are still in the cache c, in the order of seq
StillIn(seq, c) == SelectSeq(seq, LAMBDA x : x \in c)

\* one call _add_to_dedup_cache(m) in worker w; both call sites (lines 162
\* and 509) come after the test of line 145 or 483 found m absent
AddCall(w, m) ==
    /\ m \notin cache[w]
    /\ \E c \in AddToDedupCache(cache[w], m) :
          /\ cache' = [cache EXCEPT ![w] = c]
          /\ inserted' = [inserted EXCEPT ![w] = StillIn(Append(@, m), c)]
    /\ lastAdd' = [lastAdd EXCEPT ![w] = m]
    /\ UNCHANGED <<msgLog, outbound, handled, hpc, hmsg, hworker, waitingHuman>>
    /\ UNCHANGED <<inq, ipc, istatus, ilog, bookVars, schedVars, availVars, sendVars>>

\* the worker process starts again with an empty set (line 39)
ModuleLoad(w) ==
    /\ cache[w] # {}
    /\ cache' = [cache EXCEPT ![w] = {}]
    /\ inserted' = [inserted EXCEPT ![w] = <<>>]
    /\ lastAdd' = [lastAdd EXCEPT ![w] = 0]
    /\ UNCHANGED <<msgLog, outbound, handled, hpc, hmsg, hworker, waitingHuman>>
    /\ UNCHANGED <<inq, ipc, istatus, ilog, bookVars, schedVars, availVars, sendVars>>

NextDedupCache ==
    \/ \E w \in Workers, m \in MsgIds : AddCall(w, m)
    \/ \E w \in Workers : ModuleLoad(w)

SpecDedupCache == InitWebhook /\ [][NextDedupCache]_vars

\* ----------------------------------------------------------------- C26
\* the first n entries of seq as a set
Oldest(seq, n) == {seq[i] : i \in 1..n}

\* C26: after a call the cache holds at most MAX_DEDUP_SIZE ids; a call that
\* pushed the size over the cap removed MAX_DEDUP_SIZE \div 2 ids in that
\* one call, and those are the ids inserted earliest.
C26_EvictsOldestHalf ==
    [][\A w \in Workers, m \in MsgIds :
          AddCall(w, m)
          => LET before == cache[w] \cup {m}
                 removed == before \ cache'[w]
             IN /\ Cardinality(cache'[w]) <= MAX_DEDUP_SIZE
                /\ IF Cardinality(before) > MAX_DEDUP_SIZE
                   THEN removed = Oldest(Append(inserted[w], m), MAX_DEDUP_SIZE \div 2)
                   ELSE removed = {}]_vars

\* ----------------------------------------------------------------- C27
\* C27: the id a worker added last to its cache is in the cache, also when
\* that call evicted entries.
C27_JustAddedIsKept ==
    \A w \in Workers : lastAdd[w] # 0 => lastAdd[w] \in cache[w]


\* ------------------------------------------- handle_webhook, one request
\* X-Hub-Signature-256 as it arrives; non_ascii is a header value with a
\* character outside ASCII
InSigs == {"valid", "invalid", "missing", "non_ascii"}
\* the body: not JSON, JSON that is not an object, an event without
\* messages (a status update), an event with a message
InBodies == {"unparsable", "not_object", "no_message", "message"}
\* the message id; 0 is a message without id (wa_message_id is None)
InIds == {0, 1}
\* the worker that serves the request
InWorker == 1

Call(name, status) == [call |-> name, status |-> status]
Logged(entry) == ilog' = Append(ilog, entry)

\* whether the token in hand is accepted by the channel: it was not stale,
\* or it was read again from the tenants table (lines 513-519)
TokenFresh == ~inq.stale \/ \E i \in DOMAIN ilog : ilog[i].call = "refresh"

\* what a channel call made with the token in hand can answer
ChannelStatuses == IF TokenFresh THEN {200, 500} ELSE {401}

Bump(f, id) == IF id = 0 THEN f ELSE [f EXCEPT ![id] = @ + 1]

\* the response is returned
Respond(status) ==
    /\ ipc' = "done"
    /\ istatus' = status

IngressFrame ==
    UNCHANGED <<inq, inserted, lastAdd, hpc, hmsg, hworker, waitingHuman,
                bookVars, schedVars, availVars, sendVars>>

\* lines 459-464 and _verify_signature (lines 46-57); hmac.compare_digest
\* raises TypeError on a str with non-ASCII characters
IngressVerify ==
    /\ ipc = "verify"
    /\ IF ~inq.secret THEN ipc' = "parse" /\ UNCHANGED istatus
       ELSE IF inq.sig = "missing" THEN Respond(200)
       ELSE IF inq.sig = "non_ascii" THEN Respond(500)
       ELSE IF inq.sig = "invalid" THEN Respond(200)
       ELSE ipc' = "parse" /\ UNCHANGED istatus
    /\ UNCHANGED <<cache, msgLog, outbound, handled, ilog>>
    /\ IngressFrame

\* lines 466-485: request.json, _extract_message (which catches KeyError and
\* IndexError only), the fields of the message, the fast dedup test
IngressParse ==
    /\ ipc = "parse"
    /\ IF inq.body = "unparsable" THEN Respond(200)
       ELSE IF inq.body = "not_object" THEN Respond(500)
       ELSE IF inq.body = "no_message" \/ ~inq.text THEN Respond(200)
       ELSE IF ~inq.sender THEN Respond(500)
       ELSE IF inq.id \in cache[InWorker] THEN Respond(200)
       ELSE ipc' = "tenant" /\ UNCHANGED istatus
    /\ UNCHANGED <<cache, msgLog, outbound, handled, ilog>>
    /\ IngressFrame

\* lines 491-497: get_tenant_by_phone_number_id
IngressTenant ==
    /\ ipc = "tenant"
    /\ Logged(Call("read_tenant", 200))
    /\ IF inq.tenant = "known"
       THEN ipc' = "dedup" /\ UNCHANGED istatus
       ELSE Respond(200)
    /\ UNCHANGED <<cache, msgLog, outbound, handled>>
    /\ IngressFrame

\* lines 507-509: _is_duplicate_message, then _add_to_dedup_cache; answered
\* says whether the lookup in whatsapp_messages returned
IngressDedupOn(answered) ==
    /\ ipc = "dedup"
    /\ Logged(Call("read_dedup", IF answered THEN 200 ELSE 500))
    /\ \E c \in AddToDedupCache(cache[InWorker], inq.id) :
          cache' = [cache EXCEPT ![InWorker] = c]
    /\ IF answered /\ inq.id # 0 /\ msgLog[inq.id] > 0
       THEN Respond(200)
       ELSE ipc' = "mark" /\ UNCHANGED istatus
    /\ UNCHANGED <<msgLog, outbound, handled>>
    /\ IngressFrame

IngressDedup ==
    /\ ipc = "dedup"
    /\ IngressDedupOn(TRUE)

IngressDedupRaise ==
    /\ ipc = "dedup"
    /\ IngressDedupOn(FALSE)

\* lines 512-519: mark_as_read; on 401 the tenant is read again and its
\* token taken, and the handler goes on without calling mark_as_read again
IngressMarkRead ==
    /\ ipc = "mark"
    /\ \E status \in ChannelStatuses :
          IF status = 401
          THEN \E found \in BOOLEAN :
                  IF found
                  THEN /\ ilog' = ilog \o <<Call("mark_read", 401), Call("refresh", 200)>>
                       /\ ipc' = "work"
                       /\ UNCHANGED istatus
                  ELSE /\ ilog' = ilog \o <<Call("mark_read", 401), Call("refresh", 500)>>
                       /\ Respond(200)
          ELSE /\ Logged(Call("mark_read", status))
               /\ ipc' = "work"
               /\ UNCHANGED istatus
    /\ UNCHANGED <<cache, msgLog, outbound, handled>>
    /\ IngressFrame

\* lines 522-595: client, conversation, the inbound row (log_message keeps
\* its exceptions to itself), then the button handler or process_message
\* get_or_create_conversation (conversation_manager.py lines 27-110): the
\* open conversation is found, or it is not (the query raised, the client
\* has no id, the last message is older than the 24 hours of line 40); then
\* the open conversations are set to resolved (lines 68-84, failures passed
\* over) and the handler goes on with a conversation of status active
IngressWork ==
    /\ ipc = "work"
    /\ \E found \in (IF waitingHuman THEN BOOLEAN ELSE {TRUE}),
          closed \in BOOLEAN, written \in BOOLEAN :
          /\ waitingHuman' = (waitingHuman /\ (found \/ ~closed))
          /\ msgLog' = IF written THEN Bump(msgLog, inq.id) ELSE msgLog
          /\ IF waitingHuman /\ found
             THEN /\ Respond(200)
                  /\ UNCHANGED handled
             ELSE /\ handled' = Bump(handled, inq.id)
                  /\ ipc' = "reply"
                  /\ UNCHANGED istatus
    /\ UNCHANGED <<cache, outbound, ilog>>
    /\ UNCHANGED <<inq, inserted, lastAdd, hpc, hmsg, hworker, bookVars, schedVars, availVars, sendVars>>

\* lines 576 and 598 with _send_reply (lines 377-429): a button or list
\* message first when there is one, the text when there is none or when the
\* first call returned None; no call looks at why a call was refused
IngressReply ==
    /\ ipc = "reply"
    /\ \E kind \in {"none", "send_text", "send_button", "send_list"},
          first \in ChannelStatuses, second \in ChannelStatuses :
          LET calls == IF kind = "none" THEN <<>>
                       ELSE IF kind = "send_text" \/ first = 200
                       THEN <<Call(kind, first)>>
                       ELSE <<Call(kind, first), Call("send_text", second)>>
          IN /\ ilog' = ilog \o calls
             /\ outbound' = IF \E i \in DOMAIN calls : calls[i].status = 200
                             THEN Bump(outbound, inq.id) ELSE outbound
    /\ Respond(200)
    /\ UNCHANGED <<cache, msgLog, handled>>
    /\ IngressFrame

\* a step of lines 489-610 raises
IngressRaise ==
    /\ ipc \in {"mark", "work", "reply"}
    /\ ipc' = "apology"
    /\ UNCHANGED <<cache, msgLog, outbound, handled, ilog, istatus>>
    /\ IngressFrame

\* lines 612-626: the apology is sent with the token of the cached tenant;
\* a failure of this send is logged and nothing else
IngressApology ==
    /\ ipc = "apology"
    /\ \E status \in ChannelStatuses :
          /\ Logged(Call("send_text", status))
          /\ outbound' = IF status = 200 THEN Bump(outbound, inq.id) ELSE outbound
    /\ Respond(200)
    /\ UNCHANGED <<cache, msgLog, handled>>
    /\ IngressFrame

\* a request arrives at a worker whose cache and log hold earlier events
InitIngress ==
    /\ appts = [a \in ApptIds |-> AbsentAppt]
    /\ InitCalls
    /\ rpcAvailable
    /\ \E c \in {{}, {1}} : cache = [w \in Workers |-> IF w = InWorker THEN c ELSE {}]
    /\ \E n \in {0, 1} : msgLog = [m \in MsgIds |-> IF m = 1 THEN n ELSE 0]
    /\ outbound = [m \in MsgIds |-> 0]
    /\ handled = [m \in MsgIds |-> 0]
    /\ hpc = [d \in Deliveries |-> "done"]
    /\ hmsg = [d \in Deliveries |-> 0]
    /\ hworker = [d \in Deliveries |-> 0]
    /\ waitingHuman \in BOOLEAN
    /\ InitRuns
    /\ InitNoAvail
    /\ InitNoSend
    /\ inq \in [secret : BOOLEAN, sig : InSigs, body : InBodies, text : BOOLEAN,
                 sender : BOOLEAN, id : InIds, tenant : {"known", "unknown"},
                 stale : BOOLEAN]
    /\ ipc = "verify"
    /\ istatus = 0
    /\ ilog = <<>>
    /\ inserted = [w \in Workers |-> <<>>]
    /\ lastAdd = [w \in Workers |-> 0]

NextIngress ==
    \/ IngressVerify
    \/ IngressParse
    \/ IngressTenant
    \/ IngressDedup
    \/ IngressDedupRaise
    \/ IngressMarkRead
    \/ IngressWork
    \/ IngressReply
    \/ IngressRaise
    \/ IngressApology

SpecIngress == InitIngress /\ [][NextIngress]_vars


\* ----------------------------------------------------------------- C23
\* C23: every POST /webhook request is answered with HTTP 200, whatever
\* its signature, body and message, and whatever fails while it is handled.
C23_AlwaysAcknowledged ==
    ipc = "done" => istatus = 200

\* ----------------------------------------------------------------- C24
\* C24: with an app secret configured, a request whose signature does not
\* verify is answered 200 and dropped: the handler changes no dedup cache,
\* calls neither the datastore nor the channel, writes no row, sends nothing.
C24_BadSignatureDropped ==
    [][(inq.secret /\ inq.sig # "valid")
       => /\ UNCHANGED <<cache, msgLog, outbound, handled>>
          /\ ilog' = <<>>
          /\ (ipc' = "done" => istatus' = 200)]_vars

\* ----------------------------------------------------------------- C25
ChannelCalls == {"mark_read", "send_text", "send_button", "send_list", "send_template"}

\* C25: in a handled request every channel call refused with 401 is
\* followed by one re-read of the credential and, when that succeeded, by
\* the same call once more.
C25_AuthFailureRefreshesAndRetries ==
    ipc = "done"
    => \A i \in DOMAIN ilog :
          (ilog[i].call \in ChannelCalls /\ ilog[i].status = 401)
          => /\ i + 1 <= Len(ilog)
             /\ ilog[i + 1].call = "refresh"
             /\ ilog[i + 1].status = 200
                => /\ i + 2 <= Len(ilog)
                   /\ ilog[i + 2].call = ilog[i].call


\* ----------------------------------------------------------------- C29
CancelAudits(a) ==
    AuditCount("appointment_canceled", a) + AuditCount("appointment_canceled_by_client", a)

\* C29: however cancel_appointment calls and cancel button clicks for one
\* appointment interleave, at most one cancel_appointment call holds a
\* success result for it and at most one cancellation entry is in the audit
\* log for it.
C29_OneCancelWins ==
    \A a \in ApptIds :
        /\ SuccessCount("cancel", a) <= 1
        /\ CancelAudits(a) <= 1


\* --------------------------------- job runs beside tool calls and buttons
NextSchedCalls ==
    \/ \E r \in Runs :
          \/ JobQuery(r)
          \/ JobQueryRaise(r)
          \/ JobSkip(r)
          \/ MorningSend(r)
          \/ ReminderSend(r)
          \/ Mark(r)
          \/ MarkRaise(r)
          \/ JobEnd(r)
    \/ \E p \in Procs :
          \/ ModifyVerify(p) \/ ModifyVerifyRaise(p)
          \/ ModifyRpcOk(p) \/ ModifyRpcRaise(p) \/ ModifyCheck(p) \/ ModifyCheckRaise(p)
          \/ ModifyUpdate(p) \/ ModifyUpdateRaise(p)
          \/ CancelVerify(p) \/ CancelVerifyRaise(p)
          \/ CancelUpdate(p) \/ CancelUpdateRaise(p)
          \/ ButtonFetch(p) \/ ButtonFetchRaise(p)
          \/ ButtonUpdate(p) \/ ButtonUpdateRaise(p)
    \/ Tick

SpecSchedCalls == InitSched /\ [][NextSchedCalls]_vars

\* ----------------------------------------------------------------- C28
\* C28: a marker that is in an appointment's notes stays there: no write of
\* a job, of modify_appointment, of cancel_appointment or of the button
\* handler takes a morning_confirm or reminder_1h marker out of the notes.
C28_MarkersAreKept ==
    [][\A a \in ApptIds :
          (appts[a].notes \cap {MorningMarker, ReminderMarker})
              \subseteq appts'[a].notes]_vars

\* ----------------------------------------------------------------- C30
\* C30: the rows a run selects are pending appointments of the next day
\* (morning confirmation) or confirmed appointments in the lookahead window
\* (reminder), and a notification goes out only for an appointment that is
\* neither canceled nor completed at the moment of the send.
C30_SendsOnlyToSelectable ==
    [][\A r \in Runs :
          /\ (spc[r] = "idle" /\ spc'[r] = "loop")
             => \A row \in ssnap'[r] :
                   LET a == row.id
                   IN IF sjob'[r] = "morning"
                      THEN /\ appts[a].status = "pending"
                           /\ appts[a].start >= Tomorrow(now)
                           /\ appts[a].start < Tomorrow(now) + DAY
                      ELSE /\ appts[a].status = "confirmed"
                           /\ appts[a].start >= now + REMINDER_LEAD
                           /\ appts[a].start < now + REMINDER_LEAD + REMINDER_WIDTH
          /\ (spc[r] = "loop" /\ spc'[r] = "mark" /\ sends' # sends)
             => appts[srow'[r].id].status \notin TerminalStatuses]_vars


\* ----------------------------------------------------------------- C35
\* C35: when the requested date is today, no returned slot starts at or
\* before the current time of the salon.
C35_NoPastSlotToday ==
    (avPc = "done" /\ avOut.kind = "slots" /\ avIn.date = "today")
    => \A i \in DOMAIN avSlots : avSlots[i].start > now

\* ----------------------------------------------------------------- C36
\* C36: a staff member with a closure on the requested date contributes no
\* slot to the answer.
C36_ClosedStaffContributesNothing ==
    (avPc = "done" /\ avOut.kind = "slots" /\ avIn.closure = "staff1")
    => \A i \in DOMAIN avSlots : avSlots[i].staff # 1

\* ----------------------------------------------------------------- C37
\* C37: the returned slots are in ascending order of start time, and slots
\* of different staff members with the same start time keep the order in
\* which the staff members were visited (1 before 2).
C37_SortedByStartStableOnTies ==
    (avPc = "done" /\ avOut.kind = "slots")
    => \A i, j \in DOMAIN avSlots :
          i < j => /\ avSlots[i].start <= avSlots[j].start
                   /\ avSlots[i].start = avSlots[j].start
                      => avSlots[i].staff <= avSlots[j].staff

\* an answer with 09:30 and 10:00 in it and a tie between the two staff
C37_Witness ==
    /\ avPc = "done"
    /\ avOut.kind = "slots"
    /\ \E i, j \in DOMAIN avSlots :
          /\ i < j
          /\ avSlots[i].start = avSlots[j].start
          /\ avSlots[i].staff = 1
          /\ avSlots[j].staff = 2
    /\ \E i, j \in DOMAIN avSlots : avSlots[i].start = 1 /\ avSlots[j].start = 2


\* ----------------------------------------------------------------- C38
\* the tenant_id column of a staff row: the staff of the model are tenant 1's
StaffTenant(s) == 1

\* what the assistant passes as staff_id: a UUID or a name of staff row s
StaffRefs == [kind : {"id", "name"}, staff : Staffs]

\* resolve_staff of utils.py 112-128: the ids of the rows the query returns;
\* an id is looked up on the id column alone, a name inside the tenant
ResolveStaff(tenant, ref) ==
    IF ref.kind = "id" THEN {ref.staff}
    ELSE {s \in {ref.staff} : StaffTenant(s) = tenant}

\* lines 44-103 for a caller of any tenant: the staff reference is resolved,
\* then the rpc call raises and the legacy path follows
BookResolveRpcRaise(p) ==
    \E who \in Callers, ref \in StaffRefs, st \in Times, d \in Durations :
        /\ Accept(p)
        /\ Cardinality(FreeIds) > Cardinality(Booking)
        /\ IF ResolveStaff(who[1], ref) = {}
           THEN Finish(p, Error("book", "not_found"))
           ELSE \E s \in ResolveStaff(who[1], ref) :
                   Goto(p, "book_check", BookReq(who, s, st, d))
        /\ UNCHANGED <<appts, audit, rpcAvailable, now>>

NextBookRefs ==
    \E p \in Procs :
        \/ BookResolveRpcRaise(p)
        \/ BookCheck(p) \/ BookCheckRaise(p) \/ BookInsert(p) \/ BookInsertRaise(p)

SpecBookRefs == Init /\ [][NextBookRefs]_vars

\* C38: every appointment Book has created references a staff member of the
\* tenant the appointment belongs to, whether the staff member was given as
\* an identifier or as a name.
C38_BookedStaffOfSameTenant ==
    \A a \in ApptIds :
        appts[a].status # "absent" => StaffTenant(appts[a].staff) = appts[a].tenant


\* ----------------------------------------------------------------- C39
\* Reschedule, Cancel and the confirmation buttons on a calendar that holds
\* appointments of two clients, called by clients of two tenants
NextOwners ==
    \E p \in Procs :
        \/ ModifyVerify(p) \/ ModifyVerifyRaise(p)
        \/ ModifyRpcOk(p) \/ ModifyRpcRaise(p) \/ ModifyCheck(p) \/ ModifyCheckRaise(p)
        \/ ModifyUpdate(p) \/ ModifyUpdateRaise(p)
        \/ CancelVerify(p) \/ CancelVerifyRaise(p)
        \/ CancelUpdate(p) \/ CancelUpdateRaise(p)
        \/ ButtonFetch(p) \/ ButtonFetchRaise(p)
        \/ ButtonUpdate(p) \/ ButtonUpdateRaise(p)

SpecOwners == InitReschedule /\ [][NextOwners]_vars

\* C39: a Reschedule, a Cancel or a button action made for one client
\* changes no appointment of another client or tenant: the call that names
\* such an appointment leaves every appointment as it was and answers not
\* found, and every write of a call is to an appointment of its caller.
C39_OnlyOwnAppointmentsChange ==
    [][\A p \in Procs :
          /\ \A a \in ApptIds, who \in Callers :
                (/\ ~Owned(a, who[1], who[2])
                 /\ \/ \E st \in Times : ModifyVerifyOn(p, a, who, st)
                    \/ CancelVerifyOn(p, a, who)
                    \/ \E act \in ButtonActions : ButtonFetchOn(p, act, a, who))
                => /\ appts' = appts
                   /\ pc'[p] = "done"
                   /\ result'[p].kind = "error"
                   /\ result'[p].err = "not_found"
          /\ \A a \in ApptIds :
                (pc'[p] # pc[p] /\ appts'[a] # appts[a])
                => /\ a = req[p].appt
                   /\ appts[a].tenant = req[p].tenant
                   /\ appts[a].client = req[p].client]_vars

\* a call made for client 2 has been refused on appointment 1 of client 1,
\* and a call of client 1 has changed appointment 1
C39_Witness ==
    /\ \E p \in Procs :
          /\ pc[p] = "done"
          /\ result[p].kind = "error"
          /\ result[p].err = "not_found"
    /\ \E p \in Procs :
          /\ pc[p] = "done"
          /\ result[p].kind = "success"
          /\ result[p].appt = 1
    /\ appts[1].client = 1
    /\ appts[2].client = 2


\* ----------------------------------------------------------------- C40
\* C40: while the conversation is waiting for a human, a step of the
\* webhook handler starts no button action and no assistant run, changes no
\* appointment and sends no message, and the step that reaches the
\* conversation writes the inbound row of the message.
C40_WaitingHumanOnlyLogs ==
    [][waitingHuman
       => /\ handled' = handled
          /\ outbound' = outbound
          /\ appts' = appts
          /\ \A i \in DOMAIN ilog' \ DOMAIN ilog :
                ilog'[i].call \notin {"send_text", "send_button", "send_list", "send_template"}
          /\ ipc = "work" /\ ipc' # "apology"
             => msgLog' = Bump(msgLog, inq.id)]_vars


\* ----------------------------------------------------------------- C32
\* two appointments that one run of a job selects together: both pending
\* and tomorrow, or both confirmed and about one hour ahead
InitSchedBatch ==
    /\ \E job \in Jobs :
          appts = [a \in ApptIds |->
                     IF a \in {1, 2}
                     THEN IF job = "morning"
                          THEN [InitAppt("pending") EXCEPT
                                   !.client = a, !.start = DAY + a, !.end = DAY + a + 1]
                          ELSE [InitAppt("confirmed") EXCEPT
                                   !.client = a, !.staff = a,
                                   !.start = REMINDER_LEAD, !.end = REMINDER_LEAD + 1]
                     ELSE AbsentAppt]
    /\ InitCalls
    /\ rpcAvailable
    /\ InitHook
    /\ waitingHuman = FALSE
    /\ InitRuns
    /\ InitNoAvail
    /\ InitNoIngress
    /\ InitNoSend

SpecSchedBatch == InitSchedBatch /\ [][NextSched]_vars

\* C32: inside one run, a failure on one appointment (the delivery or the
\* marker write) does not end the run: a run goes back to rest only when
\* every appointment it selected has been visited.
C32_FailureDoesNotAbortTheBatch ==
    [][\A r \in Runs :
          (spc[r] \in {"loop", "mark"} /\ spc'[r] = "idle") => ssnap[r] = {}]_vars


\* ----------------------------------------------------------------- C31
\* C31: in the morning job a template is sent for an appointment only after
\* the button message for it has failed in the same run, and only when that
\* failure was the refusal for being outside the free-form window; one run
\* never has both a successful button message and a template.
C31_TemplateOnlyOutsideWindow ==
    \A r \in Runs :
        \A i \in DOMAIN stry[r] :
            stry[r][i].call = "send_template"
            => /\ i = 2
               /\ stry[r][1].call = "send_button"
               /\ stry[r][1].answer = "outside_window"


\* ----------------------------------------------------- send_text_message
\* range(3) of line 36
SEND_ATTEMPTS == 3

\* what the channel answers to one request: an HTTP status, 0 when the
\* request raises (timeout, connection error)
TxAnswers == {0, 200, 400, 429, 500}

TxFrame == UNCHANGED <<txIn, bookVars, hookVars, schedVars, availVars, ingressVars>>

\* a loop turn that retries after every status of 400 or more
TxPost_RetryOnError ==
    /\ txPc = "post"
    /\ LET status == txIn[txAttempt + 1]
       IN /\ txLog' = Append(txLog, [ev |-> "post", n |-> status])
          /\ IF status = 0
             THEN txPc' = "done" /\ txOut' = "raised"
             ELSE IF status >= 400
             THEN txPc' = "sleep" /\ UNCHANGED txOut
             ELSE txPc' = "done" /\ txOut' = "json"
    /\ UNCHANGED txAttempt
    /\ TxFrame

\* lines 37-47: the request of one loop turn and the tests on its status
TxPost ==
    /\ txPc = "post"
    /\ LET status == txIn[txAttempt + 1]
       IN /\ txLog' = Append(txLog, [ev |-> "post", n |-> status])
          /\ IF status = 0
             THEN txPc' = "done" /\ txOut' = "raised"
             ELSE IF status = 429
             THEN txPc' = "sleep" /\ UNCHANGED txOut
             ELSE IF status >= 400
             THEN txPc' = "done" /\ txOut' = "None"
             ELSE txPc' = "done" /\ txOut' = "json"
    /\ UNCHANGED txAttempt
    /\ TxFrame

\* lines 40-43 and 49: asyncio.sleep(2 ** attempt), then the next turn of
\* the loop, or return None when the range is used up
TxSleep ==
    /\ txPc = "sleep"
    /\ txLog' = Append(txLog, [ev |-> "sleep", n |-> 2 ^ txAttempt])
    /\ txAttempt' = txAttempt + 1
    /\ IF txAttempt + 1 < SEND_ATTEMPTS
       THEN txPc' = "post" /\ UNCHANGED txOut
       ELSE txPc' = "done" /\ txOut' = "None"
    /\ TxFrame

\* a call of send_text_message, the channel's answers drawn beforehand
InitSendText ==
    /\ appts = [a \in ApptIds |-> AbsentAppt]
    /\ InitCalls
    /\ rpcAvailable
    /\ InitHook
    /\ waitingHuman = FALSE
    /\ InitRuns
    /\ InitNoAvail
    /\ InitNoIngress
    /\ txIn \in [1..SEND_ATTEMPTS -> TxAnswers]
    /\ txPc = "post"
    /\ txAttempt = 0
    /\ txLog = <<>>
    /\ txOut = "none"

NextSendText == TxPost \/ TxSleep

\* the requests carry a timeout of 30 seconds (line 35) and asyncio.sleep
\* returns: a turn that can be taken is taken
SpecSendText == InitSendText /\ [][NextSendText]_vars /\ WF_vars(NextSendText)

\* ----------------------------------------------------------------- C34
\* the attempt number of the request logged at place i
TxAttemptOf(i) == Cardinality({j \in 1..(i - 1) : txLog[j].ev = "post"})

TxRequests == {i \in DOMAIN txLog : txLog[i].ev = "post"}

\* C34 as stated: every throttled request, of attempt 0, 1 or 2, is followed
\* by a wait and by another request.
C34_EveryThrottledAttemptRetried ==
    txPc = "done"
    => \A i \in TxRequests :
          txLog[i].n = 429
          => /\ i + 2 <= Len(txLog)
             /\ txLog[i + 1].ev = "sleep"
             /\ txLog[i + 2].ev = "post"

\* the state part of C34
C34_Bounded ==
    /\ Cardinality(TxRequests) <= SEND_ATTEMPTS
    /\ \A i \in TxRequests :
          LET k == TxAttemptOf(i)
              status == txLog[i].n
          IN /\ status = 429
                => /\ i < Len(txLog) => txLog[i + 1] = [ev |-> "sleep", n |-> <<1, 2, 4>>[k + 1]]
                   /\ i + 1 < Len(txLog) => k < 2 /\ txLog[i + 2].ev = "post"
                   /\ (txPc = "done" /\ k < 2) => i + 1 < Len(txLog)
                   /\ (txPc = "done" /\ k = 2) => i + 1 = Len(txLog) /\ txOut = "None"
             /\ (status >= 400 /\ status # 429)
                => i = Len(txLog) /\ txPc = "done" /\ txOut = "None"
             /\ status = 200
                => i = Len(txLog) /\ txPc = "done" /\ txOut = "json"

\* C34: a call of send_text_message ends, after at most 3 requests; a
\* throttled request of attempt k is followed by a wait of 2^k seconds, and
\* by another request when k is 0 or 1; failure is returned after the wait
\* that follows the third throttled request, and right after the first
\* other error response.
C34_SendTextTerminates ==
    /\ []C34_Bounded
    /\ <>(txPc = "done")

\* three throttled requests, the waits of 1, 2 and 4 seconds, then failure
C34_Witness ==
    /\ txPc = "done"
    /\ txOut = "None"
    /\ Len(txLog) = 6
    /\ \A i \in {1, 3, 5} : txLog[i] = [ev |-> "post", n |-> 429]
    /\ txLog[6] = [ev |-> "sleep", n |-> 4]


\* ----------------------------------------------------------------- C33
\* the clock of the reminder timer, in intervals of the trigger
MaxClock == 4

\* the interval trigger of lines 288-294 fires and the query of lines
\* 205-219 answers; the next firing is one interval later
TimerQuery ==
    /\ now = due
    /\ JobQueryOf(1, "reminder")
    /\ due' = due + REMINDER_EVERY
    /\ UNCHANGED opsLeft

\* the trigger fires and the query raises (lines 220-222): the job returns
TimerQueryRaise ==
    /\ now = due
    /\ spc[1] = "idle"
    /\ due' = due + REMINDER_EVERY
    /\ UNCHANGED <<spc, sjob, ssnap, srow, sat, sends, stry>>
    /\ UNCHANGED <<bookVars, hookVars, availVars, ingressVars, sendVars>>

\* the reminder of one row is delivered
TimerSend ==
    /\ spc[1] = "loop"
    /\ ReminderSend(1)
    /\ sends' # sends

\* time passes up to the next firing; a run is over well before it
TimerTick ==
    /\ now < due
    /\ now < MaxClock
    /\ \A r \in Runs : spc[r] = "idle"
    /\ now' = now + 1
    /\ UNCHANGED <<appts, audit, pc, req, result, rpcAvailable, opsLeft>>
    /\ UNCHANGED <<hookVars, schedVars, availVars, ingressVars, sendVars>>

\* confirmed appointments that start more than 65 minutes from now
InitTimer ==
    /\ \E s1 \in {REMINDER_LEAD + REMINDER_WIDTH + 1, REMINDER_LEAD + REMINDER_WIDTH + 2},
          s2 \in {0, REMINDER_LEAD + REMINDER_WIDTH + 1, REMINDER_LEAD + REMINDER_WIDTH + 2} :
          appts = [a \in ApptIds |->
                     IF a = 1 THEN [InitAppt("confirmed") EXCEPT !.start = s1, !.end = s1 + 1]
                     ELSE IF a = 2 /\ s2 # 0
                     THEN [InitAppt("confirmed") EXCEPT
                              !.client = 2, !.staff = 2, !.start = s2, !.end = s2 + 1]
                     ELSE AbsentAppt]
    /\ InitCalls
    /\ rpcAvailable
    /\ InitHook
    /\ waitingHuman = FALSE
    /\ InitRuns
    /\ InitNoAvail
    /\ InitNoIngress
    /\ InitNoSend

\* no row is selected twice, so the skip of marked rows has no part here
NextTimer ==
    \/ TimerQuery
    \/ TimerQueryRaise
    \/ TimerSend
    \/ Mark(1)
    \/ MarkRaise(1)
    \/ JobEnd(1)
    \/ TimerTick

SpecTimer == InitTimer /\ [][NextTimer]_vars

\* C33: with the deliveries succeeding, once the firing whose window
\* [now + 60 min, now + 65 min) holds the start of a confirmed appointment
\* has been made and its run is over, the appointment has received exactly
\* one reminder.
C33_ExactlyOneReminder ==
    \A a \in ApptIds :
        (/\ appts[a].status = "confirmed"
         /\ due > appts[a].start - REMINDER_LEAD
         /\ spc[1] = "idle")
        => sends[a]["reminder"] = 1

====
